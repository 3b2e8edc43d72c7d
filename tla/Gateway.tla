------------------------------ MODULE Gateway ------------------------------
(***************************************************************************)
(* The edge of a node (process/node.rs with adapters/store.rs, crypto.rs   *)
(* and noise.rs): the state handle of an agent, its rate of messages, the  *)
(* node's identity on disk, the signed envelope and the persistent channel *)
(* to a peer.  The five parts share no state.                              *)
(*                                                                         *)
(* Signatures are ideal: a signature is the pair of the key and the bytes  *)
(* it covers, and only signing makes one.  TCP keeps the order of what is  *)
(* written and may break at any time.                                      *)
(***************************************************************************)
EXTENDS Integers, Sequences, SequencesExt, FiniteSets, Functions, Maps

CONSTANTS
  Namespaces,       \* the uuids of the agents, as sequences of characters
  Stateful,         \* those granted the State capability
  StateKeys,        \* the keys the agents use, as sequences of characters
  Lengths,          \* the lengths of values
  StateQuota,       \* state_kb * 1024
  MaxMounts,        \* bound on the times an agent is given a handle
  MsgPerS,          \* budget.msg_per_s; 0 for no limit, as for an agent without a manifest
  Scope,            \* budget.net
  Second,           \* 1000 ms, in ticks
  MaxTicks,         \* bound on the clock
  MaxMinted,        \* bound on the keys minted
  Senders,          \* the agents named as senders; some may be reserved
  ReservedSenders,  \* RESERVED_SENDERS
  ReturnAddrs,      \* the values of from_addr
  MaxSigned,        \* bound on the signatures made
  Frames,           \* the messages sent to the peer, 1 .. n
  Oversized,        \* those that do not fit one noise message
  FrameCap,         \* frames a connection may bring in one second
  InboundCap,       \* capacity of the inbound queue
  MaxLinks          \* bound on the connections dialled

ASSUME GatewayAssumption ==
  /\ Stateful \subseteq Namespaces /\ Lengths \subseteq Nat \ {0} /\ Oversized \subseteq 1 .. Frames
  /\ {StateQuota, MaxMounts, MsgPerS, MaxTicks, MaxMinted, MaxSigned, Frames, FrameCap, MaxLinks} \subseteq Nat
  /\ Second \in Nat \ {0} /\ InboundCap \in Nat \ {0}
  /\ Scope \in {"none", "platform", "any"}
  /\ Namespaces \union StateKeys \subseteq Seq(STRING) /\ IsFiniteSet(StateKeys)

VARIABLES
  db,               \* the sled tree: the length of the value under each stored key
  wrote,            \* the length each agent last wrote under each of its keys
  used,             \* ScopedKv.used
  mounts,           \* how often each agent was given a handle
  tick,             \* now_ms, in ticks
  window,           \* msg_window: start and count, empty before the first message
  emitted,          \* when each message was let through
  file,             \* the key in the key file, 0 while there is no file or it is short
  using,            \* the key the process holds, 0 while it is not serving
  writing,          \* the key load_or_mint is writing, 0 outside of the write
  minted,           \* number of keys minted
  identity,         \* the key last served under
  unstored,         \* whether the file could not be read or written since, or for, that key
  signed,           \* the signatures made
  sealed,           \* the envelopes sealed
  admitted,         \* the envelopes wire_admit accepted
  links,            \* the connections dialled, in order
  cached,           \* conns: the connection kept for the peer, 0 if none
  sending,          \* the message send_to is busy with, 0 if none
  nextFrame,        \* the next message to send
  reported,         \* the messages send_to returned Ok for
  inbound,          \* in_tx: the frames queued for the main loop
  arrived           \* the frames the main loop took, in order

kvvars == <<db, wrote, used, mounts>>
ratevars == <<tick, window, emitted>>
keyvars == <<file, using, writing, minted, identity, unstored>>
sealvars == <<signed, sealed, admitted>>
linkvars == <<links, cached, sending, nextFrame, reported, inbound, arrived>>

-----------------------------------------------------------------------------
(* The state of an agent *)

\* SledStore::scoped: the length of the namespace, the namespace, the key.
Scoped(ns, key) == <<Len(ns)>> \o ns \o key

HeldBytes(k) == IF k \in DOMAIN db THEN db[k] ELSE 0

\* granted, for the State capability.
Granted(ns) == ns \in Stateful

\* A handle on the store: nothing is counted as used, whatever the store holds.
Provision(ns) == Granted(ns) /\ used' = [used EXCEPT ![ns] = 0]

KvInit ==
  /\ db = <<>> /\ wrote = [ns \in Namespaces |-> [key \in StateKeys |-> 0]]
  /\ used = [ns \in Namespaces |-> 0] /\ mounts = [ns \in Namespaces |-> 1]

\* mount, mount_wasm: of an agent that is here, or was before the node restarted.
MountAgain(ns) ==
  /\ mounts[ns] < MaxMounts /\ mounts' = [mounts EXCEPT ![ns] = @ + 1]
  /\ Provision(ns)
  /\ UNCHANGED <<db, wrote>>

\* set_store of the same database: every agent gets a new handle.
SetStore ==
  /\ \A ns \in Namespaces : mounts[ns] < MaxMounts
  /\ mounts' = [ns \in Namespaces |-> mounts[ns] + 1]
  /\ used' = [ns \in Namespaces |-> 0]
  /\ UNCHANGED <<db, wrote>>

\* u64::saturating_sub.
Minus(a, b) == IF a < b THEN 0 ELSE a - b

\* Mutant: a value that replaces another is not counted.
ProjectedAdds(ns, key, n) == IF HeldBytes(Scoped(ns, key)) > 0 THEN used[ns] ELSE used[ns] + n

Projected(ns, key, n) == Minus(used[ns], HeldBytes(Scoped(ns, key))) + n

\* ScopedKv::put; over the quota it does nothing.
Put(ns, key, n) ==
  /\ Granted(ns) /\ Projected(ns, key, n) <= StateQuota
  /\ db' = With(db, Scoped(ns, key), n)
  /\ wrote' = [wrote EXCEPT ![ns][key] = n]
  /\ used' = [used EXCEPT ![ns] = Projected(ns, key, n)]
  /\ UNCHANGED mounts

\* ScopedKv::del.
Del(ns, key) ==
  /\ Granted(ns)
  /\ db' = Without(db, Scoped(ns, key))
  /\ wrote' = [wrote EXCEPT ![ns][key] = 0]
  /\ used' = [used EXCEPT ![ns] = Minus(@, HeldBytes(Scoped(ns, key)))]
  /\ UNCHANGED mounts

KvNext ==
  \/ SetStore
  \/ \E ns \in Namespaces : MountAgain(ns)
  \/ \E ns \in Namespaces, key \in StateKeys : Del(ns, key) \/ \E n \in Lengths : Put(ns, key, n)

KvSpec == KvInit /\ [][KvNext]_kvvars

-----------------------------------------------------------------------------
(* The rate of an agent's messages *)

RateInit == tick = 0 /\ window = <<>> /\ emitted = <<>>

\* The window the message falls in: a new one a second after the last began.
Window == IF window = <<>> \/ Minus(tick, window[1]) >= Second THEN <<tick, 0>> ELSE window

\* rate_allows.
RateAllows ==
  IF MsgPerS > 0
    THEN /\ Window[2] < MsgPerS
         /\ window' = <<Window[1], Window[2] + 1>>
    ELSE UNCHANGED window

\* net_allows: with the scope "none" only the agents of this node.
NetAllows(isLocal) == Scope = "none" => isLocal

\* One message of pump or dispatch: the rate is asked, and charged, before the scope.
Emit(isLocal) ==
  /\ RateAllows
  /\ emitted' = IF NetAllows(isLocal) THEN Append(emitted, tick) ELSE emitted
  /\ UNCHANGED tick

\* A message over the rate is dropped; the window may have been renewed.
DenyRate ==
  /\ MsgPerS > 0 /\ Window[2] >= MsgPerS
  /\ window' = Window
  /\ UNCHANGED <<tick, emitted>>

TickPasses == tick < MaxTicks /\ tick' = tick + 1 /\ UNCHANGED <<window, emitted>>

RateNext == TickPasses \/ DenyRate \/ \E isLocal \in BOOLEAN : Emit(isLocal)

RateSpec == RateInit /\ [][RateNext]_ratevars

-----------------------------------------------------------------------------
(* The identity of a node on disk: load_or_mint of the signing and of the   *)
(* noise key                                                                *)

KeyInit ==
  /\ file = 0 /\ using = 0 /\ writing = 0 /\ minted = 0
  /\ identity = 0 /\ unstored = FALSE

Serve(key) == using' = key /\ identity' = key /\ unstored' = FALSE

\* A file of 32 bytes is the key.
LoadKey ==
  /\ using = 0 /\ writing = 0 /\ file # 0
  /\ Serve(file)
  /\ UNCHANGED <<file, writing, minted>>

\* No file, a short one, or one that cannot be read at this moment: a new key, and the file is
\* truncated for it.
MintKey(readable) ==
  /\ using = 0 /\ writing = 0 /\ minted < MaxMinted
  /\ readable => file = 0
  /\ minted' = minted + 1 /\ writing' = minted + 1 /\ file' = 0
  /\ unstored' = (unstored \/ (~readable /\ file # 0))
  /\ UNCHANGED <<using, identity>>

\* Mutant: the key serves while its file is not written.
WriteLater == writing # 0 /\ writing' = 0 /\ Serve(writing) /\ UNCHANGED <<file, minted>>

\* The write is complete, and the key is used.
WriteKey == writing # 0 /\ file' = writing /\ writing' = 0 /\ Serve(writing) /\ UNCHANGED minted

\* The write fails and the program goes on with the key the node was built with, which no file has.
KeepEphemeral ==
  /\ writing # 0 /\ minted < MaxMinted
  /\ minted' = minted + 1 /\ using' = minted + 1 /\ identity' = minted + 1
  /\ writing' = 0 /\ unstored' = TRUE
  /\ UNCHANGED file

\* The process dies, in the middle of the write too.
StopNode ==
  /\ using # 0 \/ writing # 0
  /\ using' = 0 /\ writing' = 0
  /\ UNCHANGED <<file, minted, identity, unstored>>

KeyNext == LoadKey \/ WriteKey \/ KeepEphemeral \/ StopNode \/ \E readable \in BOOLEAN : MintKey(readable)

KeySpec == KeyInit /\ [][KeyNext]_keyvars

-----------------------------------------------------------------------------
(* The envelope *)

Keyholders == {"here", "there"}
AppDomain == "fipa:agent-app:v1"

\* Mutant: the return address is left out.
SigningBytesShort(m) == <<m.to, m.from, m.unl, m.nonce, m.sender_pub>>

\* signing_bytes: every field but the signature; put and get keep the fields apart.
SigningBytes(m) == <<m.to, m.from, m.from_addr, m.unl, m.nonce, m.sender_pub>>

SealInit == signed = {} /\ sealed = {} /\ admitted = {}

\* seal: the node stamps its key and a fresh nonce.
Seal(node, from, addr) ==
  /\ Cardinality(signed) < MaxSigned
  /\ LET m == [to |-> "t", from |-> from, from_addr |-> addr, unl |-> "u",
                nonce |-> Cardinality(sealed), sender_pub |-> node]
     IN sealed' = sealed \union {m} /\ signed' = signed \union {<<node, SigningBytes(m)>>}
  /\ UNCHANGED admitted

\* The envelopes that may be on the wire, as decode_msg returns them: any fields with any signature.
Envelopes ==
  [to : {"t"}, from : Senders, from_addr : ReturnAddrs, unl : {"u"}, nonce : 0 .. MaxSigned,
   sender_pub : Keyholders]

\* NodeKeyring::sign puts the application domain first.
KeyringBytes(bytes) == <<AppDomain>> \o bytes

\* An agent with the crypto capability asks for a signature on bytes of its own choice, the bytes of
\* an envelope among them.
KeyringSign(node, m) ==
  /\ Cardinality(signed) < MaxSigned
  /\ signed' = signed \union {<<node, KeyringBytes(SigningBytes(m))>>}
  /\ UNCHANGED <<sealed, admitted>>

IsReservedSender(from) == from \in ReservedSenders

\* verify_strict: the signature is over these bytes by this key.
Verify(key, bytes, sig) == sig = <<key, bytes>>

\* wire_admit.
WireAdmit(m, sig) == ~IsReservedSender(m.from) /\ Verify(m.sender_pub, SigningBytes(m), sig)

\* accept_wire of a frame; one that is not admitted is dropped.
ReceiveEnvelope(m, sig) == WireAdmit(m, sig) /\ admitted' = admitted \union {m} /\ UNCHANGED <<signed, sealed>>

SealNext ==
  \/ \E node \in Keyholders, from \in Senders, addr \in ReturnAddrs : Seal(node, from, addr)
  \/ \E m \in Envelopes : KeyringSign(m.sender_pub, m)
  \/ \E m \in Envelopes \ admitted, sig \in signed : ReceiveEnvelope(m, sig)

SealSpec == SealInit /\ [][SealNext]_sealvars

-----------------------------------------------------------------------------
(* The channel to a peer: send_to, NodeNoise::connect and accept,           *)
(* NoiseSession, handle_conn                                                *)

LinkInit ==
  /\ links = <<>> /\ cached = 0 /\ sending = 0 /\ nextFrame = 1
  /\ reported = {} /\ inbound = <<>> /\ arrived = <<>>

\* A connection after dial: what is on the wire to the peer, the frames handled in this second, how
\* far the two ends are, and whether the third message of the handshake is written.
Dialled == [up |-> <<>>, count |-> 0, dialler |-> "hello", peer |-> "accept", third |-> FALSE]

\* NoiseSession::send refuses what does not fit one noise message.
Fits(frame) == frame \notin Oversized

\* send_to is called: write on the cached connection if there is one.
SendCached ==
  /\ sending = 0 /\ nextFrame <= Frames /\ cached # 0 /\ Fits(nextFrame)
  /\ links' = [links EXCEPT ![cached].up = IF links[cached].peer = "closed" THEN @ ELSE Append(@, nextFrame)]
  /\ reported' = reported \union {nextFrame}
  /\ nextFrame' = nextFrame + 1
  /\ UNCHANGED <<cached, sending, inbound, arrived>>

\* Mutant: an error after the frame was written in full.
BreaksWritten(l) == [l EXCEPT !.dialler = "closed", !.up = Append(@, nextFrame)]

\* A connection the dialler drops; what it wrote before stays readable.
Breaks(l) == [l EXCEPT !.dialler = "closed"]

\* The write fails: the peer reset the connection, the write timed out with the frame incomplete, or
\* the frame does not fit. The connection is forgotten and dialled anew.
CachedFails ==
  /\ sending = 0 /\ nextFrame <= Frames /\ cached # 0
  /\ links' = [links EXCEPT ![cached] = Breaks(@)]
  /\ sending' = nextFrame /\ nextFrame' = nextFrame + 1 /\ cached' = 0
  /\ UNCHANGED <<reported, inbound, arrived>>

\* No connection is cached.
StartSend ==
  /\ sending = 0 /\ nextFrame <= Frames /\ cached = 0
  /\ sending' = nextFrame /\ nextFrame' = nextFrame + 1
  /\ UNCHANGED <<links, cached, reported, inbound, arrived>>

Current == Len(links)
Dialling == Current > 0 /\ links[Current].dialler = "hello"

\* dial and the first message of the handshake.
Dial ==
  /\ sending # 0 /\ ~Dialling /\ Current < MaxLinks
  /\ links' = Append(links, Dialled)
  /\ UNCHANGED <<cached, sending, nextFrame, reported, inbound, arrived>>

\* The peer's thread answers the first message: -> e, <- e ee s es.
AcceptReplies ==
  /\ Dialling /\ links[Current].peer = "accept"
  /\ links' = [links EXCEPT ![Current].peer = "replied"]
  /\ UNCHANGED <<cached, sending, nextFrame, reported, inbound, arrived>>

\* connect returns once the third message is written, and the frame follows at once. Neither waits
\* for the peer to accept the dialler's key.
ConnectSends ==
  /\ Dialling /\ links[Current].peer = "replied" /\ Fits(sending)
  /\ links' = [links EXCEPT ![Current] = [@ EXCEPT !.dialler = "open", !.third = TRUE, !.up = <<sending>>]]
  /\ cached' = Current /\ reported' = reported \union {sending} /\ sending' = 0
  /\ UNCHANGED <<nextFrame, inbound, arrived>>

\* dial or the handshake fails, or the frame does not fit: the message is given up.
SendGivesUp ==
  /\ sending # 0
  /\ links' = IF Dialling THEN [links EXCEPT ![Current] = Breaks(@)] ELSE links
  /\ sending' = 0
  /\ UNCHANGED <<cached, nextFrame, reported, inbound, arrived>>

\* accept has the third message and the peer's key is on the allowlist, or there is none.
AcceptDone(i) ==
  /\ links[i].peer = "replied" /\ links[i].third
  /\ links' = [links EXCEPT ![i].peer = "open"]
  /\ UNCHANGED <<cached, sending, nextFrame, reported, inbound, arrived>>

\* handle_conn returns: the handshake or a read timed out, the stream ended, the key is not allowed.
PeerCloses(i) ==
  /\ links[i].peer # "closed"
  /\ links' = [links EXCEPT ![i].peer = "closed", ![i].up = <<>>]
  /\ UNCHANGED <<cached, sending, nextFrame, reported, inbound, arrived>>

\* One frame of handle_conn: counted, then queued; the thread waits while the queue is full.
PeerReads(i) ==
  /\ links[i].peer = "open" /\ links[i].up # <<>> /\ links[i].count < FrameCap
  /\ Len(inbound) < InboundCap
  /\ inbound' = Append(inbound, Head(links[i].up))
  /\ links' = [links EXCEPT ![i].up = Tail(@), ![i].count = @ + 1]
  /\ UNCHANGED <<cached, sending, nextFrame, reported, arrived>>

\* A frame over the cap of this second closes the connection, unread frames included.
PeerFloods(i) ==
  /\ links[i].peer = "open" /\ links[i].up # <<>> /\ links[i].count = FrameCap
  /\ links' = [links EXCEPT ![i].peer = "closed", ![i].up = <<>>]
  /\ UNCHANGED <<cached, sending, nextFrame, reported, inbound, arrived>>

\* A second later the count starts again.
WindowPasses(i) ==
  /\ links[i].count > 0 /\ links[i].peer = "open"
  /\ links' = [links EXCEPT ![i].count = 0]
  /\ UNCHANGED <<cached, sending, nextFrame, reported, inbound, arrived>>

\* The main loop takes a frame.
TakeInbound ==
  /\ inbound # <<>>
  /\ arrived' = Append(arrived, Head(inbound)) /\ inbound' = Tail(inbound)
  /\ UNCHANGED <<links, cached, sending, nextFrame, reported>>

LinkNext ==
  \/ SendCached \/ CachedFails \/ StartSend \/ Dial \/ AcceptReplies \/ ConnectSends \/ SendGivesUp
  \/ TakeInbound
  \/ \E i \in 1 .. Len(links) :
       AcceptDone(i) \/ PeerCloses(i) \/ PeerReads(i) \/ PeerFloods(i) \/ WindowPasses(i)

LinkSpec == LinkInit /\ [][LinkNext]_linkvars

-----------------------------------------------------------------------------
(* Properties *)

\* An agent reads what it wrote last under a key and nothing another agent wrote, however the names
\* of agents and keys run together in a stored key (store.rs:4, ScopedKv::get).
NamespacesApart ==
  \A ns \in Namespaces, key \in StateKeys : HeldBytes(Scoped(ns, key)) = wrote[ns][key]

\* An agent holds at most its quota for each time it was given a handle: puts, replacements and
\* deletions of older values never let it gain on the count of its handle (ScopedKv::put, del).
QuotaPerHandle ==
  \A ns \in Namespaces :
    SumFunction([key \in StateKeys |-> HeldBytes(Scoped(ns, key))]) <= mounts[ns] * StateQuota

\* In no second more than twice the limit leaves, wherever the second begins (rate_allows).
RateWithinTwice ==
  MsgPerS > 0 =>
    \A t \in 0 .. MaxTicks :
      Cardinality({i \in DOMAIN emitted : t <= emitted[i] /\ emitted[i] < t + Second}) <= 2 * MsgPerS

\* What a node hands to an agent stays the agent's and within bounds: its stored state apart from
\* that of others and within its quota for each mount, its messages within twice the rate.
AgentWithinBudget == NamespacesApart /\ QuotaPerHandle /\ RateWithinTwice

\* A node that comes back has the identity it had, as long as its key file could be read and written;
\* dying while a key is written changes no identity that served before (load_or_mint, load_key).
IdentityKept == [][using' # 0 /\ using = 0 /\ identity # 0 /\ ~unstored => using' = identity]_keyvars

\* What the gate admits was sealed with these very fields by the node whose key it carries, whatever
\* agents had the node's key sign for them (signing_bytes, seal, NodeKeyring::sign, wire_admit).
AdmittedWasSealed == admitted \subseteq sealed

\* A message arrives at most once, even when a connection breaks under it and it is sent again
\* on another while the peer still reads the first (send_to, handle_conn).
DeliveredOnce ==
  LET seen == arrived \o inbound
      transit == UNION {Range(links[i].up) : i \in DOMAIN links}
  IN /\ IsInjective(seen) /\ Range(seen) \cap transit = {}
     /\ \A i, j \in DOMAIN links : i # j => Range(links[i].up) \cap Range(links[j].up) = {}

\* What send_to reported as sent has arrived, is on its way, or was on a connection the peer closed.
LostOnlyWithLink ==
  (\A i \in DOMAIN links : links[i].peer # "closed") =>
    \A f \in reported : \/ f \in Range(arrived \o inbound)
                        \/ \E i \in DOMAIN links : f \in Range(links[i].up)

\* Between two nodes a message is lost only with its connection, and never doubled.
LinkSound == DeliveredOnce /\ LostOnlyWithLink

-----------------------------------------------------------------------------
(* Claims of the repository that the code does not keep *)

\* node.rs:156 "bounded by a byte quota (M4)".
WithinQuota ==
  \A ns \in Namespaces :
    SumFunction([key \in StateKeys |-> HeldBytes(Scoped(ns, key))]) <= StateQuota

\* node.rs:619 "A sliding one-second window keyed on the *sending* agent".
SlidingWindow ==
  MsgPerS > 0 =>
    \A t \in 0 .. MaxTicks :
      Cardinality({i \in DOMAIN emitted : t <= emitted[i] /\ emitted[i] < t + Second}) <= MsgPerS

\* node.rs:1536 "a broken channel is transparently re-dialled".
ReportedArrives ==
  \A f \in reported : \/ f \in Range(arrived \o inbound)
                      \/ \E i \in DOMAIN links : f \in Range(links[i].up)
=============================================================================
