------------------------------ MODULE Channel ------------------------------
(***************************************************************************)
(* interplatform/: the agent communication channel (acc.rs), the address   *)
(* forms it tells apart (address.rs), the receivers of an envelope         *)
(* (envelope.rs) and the HTTP transport (mtp.rs, http_mtp.rs).             *)
(*                                                                         *)
(* Sends, the retry loop and the administration run concurrently and meet  *)
(* at the lock of the buffer.  A send is two steps: the checks, and the    *)
(* end of the transport's attempt.  A message is an envelope with one      *)
(* address of each form; its wording does not matter here.                 *)
(***************************************************************************)
EXTENDS Integers, SequencesExt, FiniteSetsExt

CONSTANTS
  Messages,         \* the envelopes
  Dest,             \* Dest[m], the form of m's first receiver
  HasMtp,           \* an HTTP transport is registered
  HasCallback,      \* with_local_delivery was used
  EnableBuffering,  \* enable_buffering
  MaxBufferSize,    \* max_buffer_size
  MaxRetries,       \* max_retries
  RetryDelayMs,     \* retry_delay_ms
  MaxClock,         \* bound on the time, in seconds
  Remote            \* the platforms that may be registered

\* The forms an address may have: a name, a name at this platform, a name at another one, a name
\* at a URL, a URL alone, no receiver at all, an address that does not parse.
Forms == {"name", "name@here", "name@other", "name@url", "url", "nobody", "bad"}

ASSUME ChannelAssumption ==
  /\ Dest \in [Messages -> Forms]
  /\ {HasMtp, HasCallback, EnableBuffering} \subseteq BOOLEAN
  /\ {MaxBufferSize, MaxRetries, RetryDelayMs, MaxClock} \subseteq Nat

VARIABLES
  active,           \* Acc.active
  mtp,              \* the transport's MtpStatus
  inflight,         \* the messages whose first attempt is under way
  buffer,           \* Acc.buffer
  batch,            \* to_retry of a process_buffer that is running
  stage,            \* what it does with the first of the batch: "try" or "put"
  time,             \* SystemTime::now, in seconds
  incoming,         \* the transport's queue of what arrived
  platforms,        \* AddressResolver.platforms
  sent,             \* the messages given to send
  delivered,        \* the messages a callback or the other platform accepted
  failures,         \* the messages failed_deliveries was counted for
  cleared,          \* the messages clear_buffer threw away
  retries           \* retries[m], the times m was tried again

channelvars == <<active, mtp, inflight, buffer, batch, stage, time, incoming, platforms, sent,
                 delivered, failures, cleared, retries>>

ChannelInit ==
  /\ active = FALSE /\ mtp = "Inactive"
  /\ inflight = {} /\ buffer = <<>> /\ batch = <<>> /\ stage = "try"
  /\ time = 0 /\ incoming = <<>> /\ platforms = {}
  /\ sent = {} /\ delivered = {} /\ failures = {} /\ cleared = {}
  /\ retries = [m \in Messages |-> 0]

-----------------------------------------------------------------------------
(* Addresses *)

\* AgentAddress::parse fails; or there is no primary receiver.
Unusable(m) == Dest[m] \in {"nobody", "bad"}

\* AddressResolver::is_local of the parsed address.  A URL has no '@': it is parsed as a name.
IsLocal(m) == Dest[m] \in {"name", "url", "name@here"}

\* HttpMtp::parse_destination finds a URL.
HasUrl(m) == Dest[m] \in {"name@url", "url"}

\* AddressResolver::resolve gives a transport address: the URL, or the registered platform's.
Resolves(m) == Dest[m] = "name@url" \/ (Dest[m] = "name@other" /\ platforms # {})

-----------------------------------------------------------------------------
(* Operations *)

\* Acc::start: a transport that does not come up leaves the channel inactive.
Start ==
  /\ \/ active' = TRUE /\ mtp' = "Active"
     \/ mtp # "Active" /\ active' = active /\ mtp' = "Starting"
  /\ UNCHANGED <<inflight, buffer, batch, stage, time, incoming, platforms, sent, delivered,
                 failures, cleared, retries>>

Stop ==
  /\ active' = FALSE /\ mtp' = "Inactive"
  /\ UNCHANGED <<inflight, buffer, batch, stage, time, incoming, platforms, sent, delivered,
                 failures, cleared, retries>>

\* send, up to the transport: refused, handed to the local callback (or refused without one), or
\* on its way; deliver_remote refuses when there is no transport at all.
Send(m) ==
  /\ active /\ m \notin sent
  /\ ~Unusable(m)
  /\ \/ IsLocal(m) /\ HasCallback /\ delivered' = delivered \union {m} /\ inflight' = inflight
     \/ ~IsLocal(m) /\ HasMtp /\ inflight' = inflight \union {m} /\ delivered' = delivered
  /\ sent' = sent \union {m}
  /\ UNCHANGED <<active, mtp, buffer, batch, stage, time, incoming, platforms, failures, cleared,
                 retries>>

\* HttpMtp::send succeeds: the transport is up, the address has a URL and the other side accepts.
CanReach(m) == mtp = "Active" /\ HasUrl(m)

\* handle_failed_delivery.
HandleFailed(m) ==
  IF EnableBuffering /\ Len(buffer) < MaxBufferSize
  THEN buffer' = Append(buffer, [msg |-> m, attempts |-> 1, last |-> time]) /\ failures' = failures
  ELSE buffer' = buffer /\ failures' = failures \union {m}

\* The end of send's attempt.
SendEnds(m) ==
  /\ m \in inflight
  /\ inflight' = inflight \ {m}
  /\ \/ CanReach(m) /\ delivered' = delivered \union {m} /\ UNCHANGED <<buffer, failures>>
     \/ HandleFailed(m) /\ delivered' = delivered
  /\ UNCHANGED <<active, mtp, batch, stage, time, incoming, platforms, sent, cleared, retries>>

\* process_buffer takes, from the front, the messages whose last attempt is old enough.
Ready(e) == time - e.last >= RetryDelayMs \div 1000

ProcessBuffer ==
  /\ batch = <<>> /\ buffer # <<>> /\ Ready(Head(buffer))
  /\ LET n == Max({k \in 1 .. Len(buffer) : \A i \in 1 .. k : Ready(buffer[i])})
     IN  batch' = SubSeq(buffer, 1, n) /\ buffer' = SubSeq(buffer, n + 1, Len(buffer))
  /\ stage' = "try"
  /\ UNCHANGED <<active, mtp, inflight, time, incoming, platforms, sent, delivered, failures,
                 cleared, retries>>

Drop(e) ==
  /\ e.attempts >= MaxRetries
  /\ failures' = failures \union {e.msg}
  /\ batch' = Tail(batch)
  /\ UNCHANGED <<buffer, stage, delivered, retries>>

\* Mutant: the attempt of a retry does not put the message in the buffer itself.
RetryKeepsNoCopy(e) ==
  /\ e.attempts < MaxRetries
  /\ retries' = [retries EXCEPT ![e.msg] = @ + 1]
  /\ \/ CanReach(e.msg) /\ delivered' = delivered \union {e.msg} /\ batch' = Tail(batch)
        /\ UNCHANGED <<buffer, failures, stage>>
     \/ UNCHANGED <<buffer, failures, delivered>> /\ stage' = "put"
        /\ batch' = <<[e EXCEPT !.attempts = @ + 1, !.last = time]>> \o Tail(batch)

\* A retry is a deliver_remote, which buffers the message itself where it fails; the loop then
\* means to put its own copy back.
Retry(e) ==
  /\ e.attempts < MaxRetries
  /\ retries' = [retries EXCEPT ![e.msg] = @ + 1]
  /\ \/ CanReach(e.msg) /\ delivered' = delivered \union {e.msg} /\ batch' = Tail(batch)
        /\ UNCHANGED <<buffer, failures, stage>>
     \/ HandleFailed(e.msg) /\ delivered' = delivered /\ stage' = "put"
        /\ batch' = <<[e EXCEPT !.attempts = @ + 1, !.last = time]>> \o Tail(batch)

\* ... and does where there is room.
PutBack(e) ==
  /\ batch' = Tail(batch) /\ stage' = "try"
  /\ buffer' = IF Len(buffer) < MaxBufferSize THEN Append(buffer, e) ELSE buffer
  /\ UNCHANGED <<delivered, failures, retries>>

RetryNext ==
  /\ batch # <<>>
  /\ IF stage = "put" THEN PutBack(Head(batch)) ELSE Drop(Head(batch)) \/ Retry(Head(batch))
  /\ UNCHANGED <<active, mtp, inflight, time, incoming, platforms, sent, cleared>>

ClearBuffer ==
  /\ buffer # <<>> /\ buffer' = <<>>
  /\ cleared' = cleared \union {buffer[i].msg : i \in DOMAIN buffer}
  /\ UNCHANGED <<active, mtp, inflight, batch, stage, time, incoming, platforms, sent, delivered,
                 failures, retries>>

\* HttpMtpHandler::handle_request, queue_incoming.
Arrives(m) ==
  /\ incoming = <<>> /\ m \notin sent
  /\ incoming' = <<m>> /\ sent' = sent \union {m}
  /\ UNCHANGED <<active, mtp, inflight, buffer, batch, stage, time, platforms, delivered, failures,
                 cleared, retries>>

\* Mtp::receive and Acc::receive: what is not for an agent here is dropped with a warning.
Receive ==
  /\ incoming # <<>> /\ incoming' = Tail(incoming)
  /\ LET m == Head(incoming)
     IN  IF ~Unusable(m) /\ IsLocal(m) /\ HasCallback
         THEN delivered' = delivered \union {m} /\ cleared' = cleared
         ELSE delivered' = delivered /\ cleared' = cleared \union {m}
  /\ UNCHANGED <<active, mtp, inflight, buffer, batch, stage, time, platforms, sent, failures,
                 retries>>

RegisterPlatform(p) ==
  /\ p \notin platforms /\ platforms' = platforms \union {p}
  /\ UNCHANGED <<active, mtp, inflight, buffer, batch, stage, time, incoming, sent, delivered,
                 failures, cleared, retries>>

UnregisterPlatform(p) ==
  /\ p \in platforms /\ platforms' = platforms \ {p}
  /\ UNCHANGED <<active, mtp, inflight, buffer, batch, stage, time, incoming, sent, delivered,
                 failures, cleared, retries>>

TimePasses ==
  /\ time < MaxClock /\ time' = time + 1
  /\ UNCHANGED <<active, mtp, inflight, buffer, batch, stage, incoming, platforms, sent, delivered,
                 failures, cleared, retries>>

ChannelNext ==
  \/ Start \/ Stop \/ ProcessBuffer \/ RetryNext \/ ClearBuffer \/ Receive \/ TimePasses
  \/ \E m \in Messages : Send(m) \/ SendEnds(m) \/ Arrives(m)
  \/ \E p \in Remote : RegisterPlatform(p) \/ UnregisterPlatform(p)

ChannelSpec == ChannelInit /\ [][ChannelNext]_channelvars

-----------------------------------------------------------------------------
(* Properties *)

Held == {buffer[i].msg : i \in DOMAIN buffer} \union {batch[i].msg : i \in DOMAIN batch}

\* A message the channel took is on its way, arrived, kept for a retry, counted as failed, or was
\* thrown away on request: the retry loop drops a message silently when the buffer has filled up
\* meanwhile, and yet no message is lost unaccounted for (send, handle_failed_delivery,
\* process_buffer).
AcceptedNotLost ==
  sent \subseteq inflight \union delivered \union Held \union failures \union cleared
                 \union {incoming[i] : i \in DOMAIN incoming}

\* "Maximum retries for failed deliveries" (max_retries): a message is tried again at most so often.
RetriesBounded == \A m \in Messages : retries[m] <= MaxRetries

\* An address of a platform that was registered leads to it (register_platform, resolve).
RegisteredIsReachable == \A m \in sent : Resolves(m) => HasUrl(m)
=============================================================================
