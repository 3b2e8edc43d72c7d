--------------------------- MODULE AccessProofs ---------------------------
(***************************************************************************)
(* Proofs about how the platform and its agents deal with others, each     *)
(* part on its own and for every value of its constants: the security      *)
(* manager, the web of trust and its store, the identity of a node, the    *)
(* signed envelope, the state and the rate of an agent, the channel to a   *)
(* peer, the protocol machine of a negotiation and the conversations of an *)
(* agent actor.                                                            *)
(***************************************************************************)
EXTENDS Security, Trust, Gateway, Negotiation, Conversation,
        SumTheorems, FiniteSetTheorems, SequenceTheorems, TLAPS

-----------------------------------------------------------------------------
(* The security manager *)

LockoutType ==
  /\ now \in Nat
  /\ lockouts \in [Principals -> [failed : Nat, until : Nat]]
  /\ refused \in [Principals -> [count : Nat, at : Nat]]

\* What the manager counts is what happened, and an account that failed often enough is locked until
\* the lockout after its last failure is over.
LockoutKept ==
  \A a \in Principals :
    /\ lockouts[a].failed = refused[a].count
    /\ refused[a].count >= MaxFailures => lockouts[a].until = refused[a].at + LockoutTime

LockoutInv == LockoutType /\ LockoutKept

SecurityNext == LoginNext \/ PolicyNext

\* Every call of the manager keeps the count of failures and the lockout together.
LEMMA LockoutStep == LockoutInv /\ [SecurityNext]_svars => LockoutInv'
<1> SUFFICES ASSUME LockoutInv, [SecurityNext]_svars PROVE LockoutInv'
  OBVIOUS
<1> USE SecurityAssumption DEF LockoutInv, LockoutType
<1>1. ASSUME UNCHANGED <<lockouts, refused>>, now' \in Nat PROVE LockoutInv'
  BY <1>1 DEF LockoutKept
<1>2. ASSUME NEW a \in Principals, UNCHANGED now,
             lockouts' = [lockouts EXCEPT ![a] = NoLockout],
             refused' = [refused EXCEPT ![a].count = 0]
      PROVE  LockoutInv'
  <2>1. LockoutType'
    BY <1>2 DEF NoLockout
  <2>2. ASSUME NEW b \in Principals
        PROVE  /\ lockouts'[b].failed = refused'[b].count
               /\ refused'[b].count >= MaxFailures => lockouts'[b].until = refused'[b].at + LockoutTime
    BY <1>2, <2>2 DEF LockoutKept, NoLockout
  <2> QED BY <2>1, <2>2 DEF LockoutKept
<1>3. ASSUME NEW a \in Principals, UNCHANGED now,
             lockouts' = [lockouts EXCEPT ![a] = RecordFailure(lockouts[a])],
             refused' = [refused EXCEPT ![a] = [count |-> refused[a].count + 1, at |-> now]]
      PROVE  LockoutInv'
  <2>1. LockoutType'
    BY <1>3 DEF RecordFailure
  <2>2. ASSUME NEW b \in Principals
        PROVE  /\ lockouts'[b].failed = refused'[b].count
               /\ refused'[b].count >= MaxFailures => lockouts'[b].until = refused'[b].at + LockoutTime
    BY <1>3, <2>2 DEF LockoutKept, RecordFailure
  <2> QED BY <2>1, <2>2 DEF LockoutKept
<1>4. CASE LoginNext
  <2>1. ASSUME NEW a \in Principals, ClearLockout(a) \/ \E c \in Credentials : Authenticate(a, c)
        PROVE  LockoutInv'
    BY <1>2, <2>1 DEF ClearLockout, Authenticate
  <2>2. ASSUME NEW a \in Principals, NEW c \in Credentials, AuthenticateFails(a, c) PROVE LockoutInv'
    BY <1>3, <2>2 DEF AuthenticateFails
  <2>3. ASSUME \/ RegisterOrRevoke \/ CleanupExpiredSessions \/ SecurityTick
               \/ \E a \in Principals : AuthenticateDisabled(a)
               \/ \E s \in issued : InvalidateSession(s)
        PROVE  LockoutInv'
    <3>1. UNCHANGED <<lockouts, refused>> /\ now' \in {now, now + 1}
      BY <2>3 DEF RegisterOrRevoke, CleanupExpiredSessions, SecurityTick, AuthenticateDisabled,
           InvalidateSession
    <3> QED BY <1>1, <3>1
  <2> QED BY <1>4, <2>1, <2>2, <2>3 DEF LoginNext
<1>5. CASE PolicyNext
  BY <1>1, <1>5 DEF PolicyNext, LoadPolicy, BindRoles, Authorize
<1>6. CASE UNCHANGED svars
  BY <1>1, <1>6 DEF svars
<1> QED BY <1>4, <1>5, <1>6 DEF SecurityNext

\* An agent whose credentials failed max_auth_failures times gets no session before the lockout is
\* over, for any agents, limits and times (authenticate, record_failure, is_locked).
THEOREM LockoutTheorem == SecuritySpec => LockoutHolds
<1> DEFINE Held == \A a \in Principals :
             (\E s \in issued' \ issued : s.agent = a /\ ~s.anonymous) =>
               refused[a].count < MaxFailures \/ now >= refused[a].at + LockoutTime
<1>1. SInit => LockoutInv
  BY SecurityAssumption DEF SInit, LockoutInv, LockoutType, LockoutKept, NoLockout
<1>2. LockoutInv /\ [SecurityNext]_svars => [Held]_svars
  <2> SUFFICES ASSUME LockoutInv, SecurityNext PROVE Held
    BY DEF svars
  <2>1. ASSUME NEW a \in Principals, NEW s, s \in issued' \ issued, s.agent = a, ~s.anonymous
        PROVE  refused[a].count < MaxFailures \/ now >= refused[a].at + LockoutTime
    <3>1. PICK b \in Principals, c \in Credentials : Authenticate(b, c) \/ AuthenticateDisabled(b)
      BY <2>1 DEF SecurityNext, LoginNext, PolicyNext, RegisterOrRevoke, CleanupExpiredSessions,
           SecurityTick, ClearLockout, AuthenticateFails, InvalidateSession, LoadPolicy, BindRoles,
           Authorize, Credentials
    <3>2. Authenticate(a, c)
      BY <3>1, <2>1 DEF Authenticate, AuthenticateDisabled, NewSession
    <3>3. ~(now < lockouts[a].until)
      BY <3>2 DEF Authenticate, IsLocked
    <3> QED BY <3>3, SecurityAssumption DEF LockoutInv, LockoutType, LockoutKept
  <2> QED BY <2>1
<1>3. SecuritySpec => SInit /\ [][SecurityNext]_svars
  BY DEF SecuritySpec, SecurityNext
<1> QED BY <1>1, <1>2, <1>3, LockoutStep, PTL DEF LockoutHolds

SessionInv == now \in Int /\ (\A s \in issued : s.expires \in Int) /\ SessionsHonoured

\* A session that was handed out is honoured until it expires or is invalidated, whatever is cleaned
\* up in between (authenticate, validate_session, cleanup_expired_sessions).
THEOREM SessionsTheorem == SecuritySpec => []SessionsHonoured
<1> USE SecurityAssumption DEF SessionInv, SessionsHonoured, IsValid
<1>1. SInit => SessionInv
  BY DEF SInit
<1>2. SessionInv /\ [SecurityNext]_svars => SessionInv'
  <2> SUFFICES ASSUME SessionInv, [SecurityNext]_svars PROVE SessionInv'
    OBVIOUS
  <2>1. ASSUME UNCHANGED <<issued, sessions, ended>>, now' \in {now, now + 1} PROVE SessionInv'
    BY <2>1
  <2>2. ASSUME NEW a \in Principals, AuthenticateDisabled(a) \/ \E c \in Credentials : Authenticate(a, c)
        PROVE  SessionInv'
    BY <2>2 DEF AuthenticateDisabled, Authenticate, NewSession
  <2>3. ASSUME NEW s \in issued, InvalidateSession(s) PROVE SessionInv'
    BY <2>3 DEF InvalidateSession
  <2>4. CASE CleanupExpiredSessions
    BY <2>4 DEF CleanupExpiredSessions
  <2>5. CASE LoginNext
    BY <2>5, <2>1, <2>2, <2>3, <2>4
       DEF LoginNext, RegisterOrRevoke, SecurityTick, ClearLockout, AuthenticateFails
  <2>6. CASE PolicyNext
    BY <2>1, <2>6 DEF PolicyNext, LoadPolicy, BindRoles, Authorize
  <2>7. CASE UNCHANGED svars
    BY <2>1, <2>7 DEF svars
  <2> QED BY <2>5, <2>6, <2>7 DEF SecurityNext
<1>3. SecuritySpec => SInit /\ [][SecurityNext]_svars
  BY DEF SecuritySpec, SecurityNext
<1> QED BY <1>1, <1>2, <1>3, PTL

\* What get_agent_permissions has cached for an agent is what it would compute from the policy in
\* force and the roles resolved for it.
AgentCacheExact ==
  \A a \in DOMAIN engine.agentCache : engine.agentCache[a] = BoundPermissions(engine, a)

IsEngine(e) == e = [policy |-> e.policy, roleCache |-> e.roleCache, agentCache |-> e.agentCache]

EngineInv == IsEngine(engine) /\ AgentCacheExact

\* The calls that change the policy or the roles forget what was cached for agents.
LEMMA EnginesFresh ==
  /\ \A p : IsEngine(SetPolicy(p)) /\ SetPolicy(p).agentCache = <<>>
  /\ \A e, b : IsEngine(e) => IsEngine(AddBinding(e, b)) /\ AddBinding(e, b).agentCache = <<>>
  /\ \A e, n, r : IsEngine(e) => IsEngine(AddBuiltinRole(e, n, r))
  /\ IsEngine(NewEngine) /\ NewEngine.agentCache = <<>>
  BY DEF IsEngine, SetPolicy, AddBinding, AddBuiltinRole, NewEngine

\* An authorization caches for its agent what the engine computes for it, and changes nothing else.
LEMMA CachedExact ==
  ASSUME NEW e, IsEngine(e), NEW a,
         \A b \in DOMAIN e.agentCache : e.agentCache[b] = BoundPermissions(e, b)
  PROVE  /\ IsEngine(Cached(e, a))
         /\ \A b \in DOMAIN Cached(e, a).agentCache : Cached(e, a).agentCache[b] = BoundPermissions(Cached(e, a), b)
<1> DEFINE c == Cached(e, a)
<1>1. IsEngine(c) /\ c.policy = e.policy /\ c.roleCache = e.roleCache
      /\ c.agentCache = With(e.agentCache, a, AgentPermissions(e, a))
  BY DEF IsEngine, Cached
<1>2. \A b : BoundPermissions(c, b) = BoundPermissions(e, b)
  BY <1>1 DEF BoundPermissions
<1>3. AgentPermissions(e, a) = BoundPermissions(e, a)
  BY DEF AgentPermissions
<1>4. \A b \in DOMAIN c.agentCache : c.agentCache[b] = BoundPermissions(e, b)
  BY <1>1, <1>3 DEF With
<1> HIDE DEF c
<1>5. IsEngine(c) /\ \A b \in DOMAIN c.agentCache : c.agentCache[b] = BoundPermissions(c, b)
  BY <1>1, <1>2, <1>4
<1> QED BY <1>5 DEF c

\* Neither replacing the policy, nor adding a binding, nor any authorization in between leaves an
\* agent with permissions that the engine would not compute now (set_policy, add_binding,
\* get_agent_permissions).
THEOREM AgentCacheTheorem == SecuritySpec => []AgentCacheExact
<1>0. ASSUME NEW e, IsEngine(e), e.agentCache = <<>>
      PROVE  \A a \in DOMAIN e.agentCache : e.agentCache[a] = BoundPermissions(e, a)
  BY <1>0
<1>1. SInit => EngineInv
  <2>1. IsEngine(WithDefaults) /\ WithDefaults.agentCache = <<>>
    BY EnginesFresh, Zenon DEF WithDefaults
  <2> QED BY <1>0, <2>1, EnginesFresh DEF SInit, EngineInv, AgentCacheExact
<1>2. EngineInv /\ [SecurityNext]_svars => EngineInv'
  <2> SUFFICES ASSUME EngineInv, [SecurityNext]_svars PROVE EngineInv'
    OBVIOUS
  <2>1. ASSUME IsEngine(engine'), engine'.agentCache = <<>> PROVE EngineInv'
    BY <1>0, <2>1 DEF EngineInv, AgentCacheExact
  <2>2. ASSUME UNCHANGED engine PROVE EngineInv'
    BY <2>2 DEF EngineInv, AgentCacheExact
  <2>3. CASE LoadPolicy
    BY <2>1, <2>3, EnginesFresh DEF LoadPolicy
  <2>4. CASE BindRoles
    BY <2>1, <2>4, EnginesFresh DEF BindRoles, EngineInv
  <2>5. ASSUME NEW s \in issued, Authorize(s) PROVE EngineInv'
    <3>1. engine' = Cached(engine, s.agent)
      BY <2>5 DEF Authorize
    <3> QED BY <3>1, CachedExact DEF EngineInv, AgentCacheExact
  <2>6. CASE LoginNext
    BY <2>2, <2>6 DEF LoginNext, RegisterOrRevoke, CleanupExpiredSessions, SecurityTick,
         AuthenticateDisabled, ClearLockout, Authenticate, AuthenticateFails, InvalidateSession
  <2>7. CASE UNCHANGED svars
    BY <2>2, <2>7 DEF svars
  <2> QED BY <2>3, <2>4, <2>5, <2>6, <2>7 DEF SecurityNext, PolicyNext
<1>3. EngineInv => AgentCacheExact
  BY DEF EngineInv
<1>4. SecuritySpec => SInit /\ [][SecurityNext]_svars
  BY DEF SecuritySpec, SecurityNext
<1> QED BY <1>1, <1>2, <1>3, <1>4, PTL

\* A policy with finitely many roles, each with a list of parents.
RolesOK(P) ==
  /\ IsFiniteSet(DOMAIN P.roles)
  /\ \A r \in DOMAIN P.roles : P.roles[r].inherits \in Seq(Range(P.roles[r].inherits))

\* The names of the roles and of their parents.
RoleNames(P) == DOMAIN P.roles \union UNION {Range(P.roles[r].inherits) : r \in DOMAIN P.roles}

\* One parent more, by the walk g.
Inherited(g, acc, parent) ==
  IF ~acc.ok THEN acc ELSE [g[<<parent, acc.visited>>] EXCEPT !.perms = @ \union acc.perms]

\* The fold of resolve_role_permissions: a function that does so, of every set of a list's places,
\* for the names there in order.
Inheritances(h, g, st, list, D) ==
  h = [p \in D |-> IF p = {} THEN st ELSE Inherited(g, h[p \ {Max(p)}], list[Max(p)])]

AllInherited(g, st, list) == FoldLeft(LAMBDA acc, parent : Inherited(g, acc, parent), st, list)

\* The walk from a role, given the one from the next.
WalkFrom(g, P, x, V) ==
  IF x \in V \/ x \notin DOMAIN P.roles
  THEN [ok |-> FALSE, visited |-> V \union {x}, perms |-> {}]
  ELSE AllInherited(g, [ok |-> TRUE, visited |-> V \union {x}, perms |-> P.roles[x].permissions],
                    P.roles[x].inherits)

Walks(g, P) == g = [c \in RoleNames(P) \X SUBSET RoleNames(P) |-> WalkFrom(g, P, c[1], c[2])]

LEMMA ResolveIs ==
  ASSUME NEW P, NEW start
  PROVE  Resolve(P, start) = (CHOOSE g : Walks(g, P))[<<start, {}>>]
BY DEF Resolve, Walks, WalkFrom, AllInherited, Inherited, RoleNames

LEMMA AllInheritedIs ==
  ASSUME NEW g, NEW st, NEW list
  PROVE  AllInherited(g, st, list)
           = (CHOOSE h : Inheritances(h, g, st, list, SUBSET DOMAIN list))[DOMAIN list]
BY DEF AllInherited, FoldLeft, MapThenFoldSet, Inheritances

\* There is such a function, by induction on the places.
LEMMA InheritancesExist ==
  ASSUME NEW g, NEW st, NEW list, NEW n \in Nat
  PROVE  \E h : Inheritances(h, g, st, list, SUBSET (1 .. n))
<1> DEFINE Good == {k \in Nat : \E h : Inheritances(h, g, st, list, SUBSET (1 .. k))}
<1>1. 0 \in Good
  <2>1. \A p \in SUBSET (1 .. 0) : p = {}
    OBVIOUS
  <2>2. Inheritances([p \in SUBSET (1 .. 0) |-> st], g, st, list, SUBSET (1 .. 0))
    BY <2>1 DEF Inheritances
  <2> QED BY <2>2
<1>2. ASSUME NEW k \in Nat, k \in Good
      PROVE  k + 1 \in Good
  <2>1. PICK f : Inheritances(f, g, st, list, SUBSET (1 .. k))
    BY <1>2
  <2>2. PICK h : h = [p \in SUBSET (1 .. k + 1) |->
                        IF k + 1 \in p THEN Inherited(g, f[p \ {k + 1}], list[k + 1]) ELSE f[p]]
    OBVIOUS
  <2>3. ASSUME NEW p \in SUBSET (1 .. k + 1)
        PROVE  h[p] = IF p = {} THEN st ELSE Inherited(g, h[p \ {Max(p)}], list[Max(p)])
    <3>1. CASE k + 1 \in p
      <4>1. Max(p) = k + 1 /\ p # {}
        BY <3>1, MaxOfUpTo
      <4>2. p \ {k + 1} \in SUBSET (1 .. k) /\ p \ {k + 1} \in SUBSET (1 .. k + 1)
        OBVIOUS
      <4>3. h[p \ {k + 1}] = f[p \ {k + 1}]
        BY <2>2, <4>2
      <4>4. h[p] = Inherited(g, f[p \ {k + 1}], list[k + 1])
        BY <2>2, <3>1
      <4> QED BY <4>1, <4>3, <4>4
    <3>2. CASE k + 1 \notin p
      <4>1. p \in SUBSET (1 .. k)
        BY <3>2
      <4>2. f[p] = IF p = {} THEN st ELSE Inherited(g, f[p \ {Max(p)}], list[Max(p)])
        BY <2>1, <4>1 DEF Inheritances
      <4>3. h[p] = f[p]
        BY <2>2, <3>2
      <4>4. p # {} => h[p \ {Max(p)}] = f[p \ {Max(p)}]
        BY <2>2, <3>2
      <4> QED BY <4>2, <4>3, <4>4
    <3> QED BY <3>1, <3>2
  <2>4. Inheritances(h, g, st, list, SUBSET (1 .. k + 1))
    <3>1. h = [p \in SUBSET (1 .. k + 1) |-> h[p]]
      BY <2>2
    <3>2. [p \in SUBSET (1 .. k + 1) |-> h[p]]
            = [p \in SUBSET (1 .. k + 1) |->
                 IF p = {} THEN st ELSE Inherited(g, h[p \ {Max(p)}], list[Max(p)])]
      BY <2>3
    <3> QED BY <3>1, <3>2 DEF Inheritances
  <2> QED BY <2>4
<1>3. Nat \subseteq Good
  <2> HIDE DEF Good
  <2> QED BY <1>1, <1>2, NatSetInduction
<1> QED BY <1>3

\* at[i]: what is inherited after the first i parents of the list.
InheritedBy(at, g, st, list) ==
  /\ at[0] = st
  /\ \A i \in 1 .. Len(list) : at[i] = Inherited(g, at[i - 1], list[i])

\* So the fold is a run along the list, one parent at a time.
LEMMA InheritedRuns ==
  ASSUME NEW g, NEW st, NEW X, NEW list \in Seq(X)
  PROVE  \E at : InheritedBy(at, g, st, list) /\ AllInherited(g, st, list) = at[Len(list)]
<1> DEFINE n == Len(list)
<1>1. n \in Nat /\ DOMAIN list = 1 .. n
  OBVIOUS
<1> HIDE DEF n
<1>2. PICK h : Inheritances(h, g, st, list, SUBSET (1 .. n)) /\ AllInherited(g, st, list) = h[1 .. n]
  <2>1. \E h : Inheritances(h, g, st, list, SUBSET (1 .. n))
    BY <1>1, InheritancesExist
  <2>2. PICK h : h = CHOOSE f : Inheritances(f, g, st, list, SUBSET (1 .. n))
    OBVIOUS
  <2>3. Inheritances(h, g, st, list, SUBSET (1 .. n))
    BY <2>1, <2>2
  <2>4. AllInherited(g, st, list) = h[1 .. n]
    BY <1>1, <2>2, AllInheritedIs
  <2> QED BY <2>3, <2>4
<1>3. PICK at : at = [i \in 0 .. n |-> h[1 .. i]]
  OBVIOUS
<1>4. at[0] = st
  <2>1. 1 .. 0 = {} /\ {} \in SUBSET (1 .. n) /\ 0 \in 0 .. n
    BY <1>1
  <2> QED BY <1>2, <1>3, <2>1 DEF Inheritances
<1>5. ASSUME NEW i \in 1 .. n
      PROVE  at[i] = Inherited(g, at[i - 1], list[i])
  <2>1. /\ i - 1 \in Nat /\ i \in 0 .. n /\ i - 1 \in 0 .. n
        /\ 1 .. i \in SUBSET (1 .. n) /\ 1 .. i # {}
        /\ (1 .. i) \ {i} = 1 .. i - 1 /\ Max(1 .. i) = i
    BY <1>1, UpTo
  <2>2. PICK p : p = 1 .. i
    OBVIOUS
  <2>3. p \in SUBSET (1 .. n) /\ p # {}
    BY <2>1, <2>2
  <2>4. h[p] = Inherited(g, h[p \ {Max(p)}], list[Max(p)])
    BY ONLY <1>2, <2>3 DEF Inheritances
  <2>5. h[1 .. i] = Inherited(g, h[(1 .. i) \ {Max(1 .. i)}], list[Max(1 .. i)])
    BY <2>2, <2>4
  <2> QED BY <1>3, <2>1, <2>5
<1>6. at[n] = AllInherited(g, st, list)
  BY <1>1, <1>2, <1>3
<1> QED BY <1>4, <1>5, <1>6 DEF InheritedBy, n

\* What a walk from V returns: what it visited is V and more of the names N.
Grown(r, V, N) ==
  /\ r = [ok |-> r.ok, visited |-> r.visited, perms |-> r.perms] /\ r.ok \in BOOLEAN
  /\ V \subseteq r.visited /\ r.visited \subseteq N

\* The walks g and h agree where the names of a set of L were visited, and there they only add names.
WalksAgree(g, h, N, L) == \A c \in N \X L : g[c] = h[c] /\ Grown(g[c], c[2], N)

\* With a set, L has the larger ones.
Upwards(N, L) == L \in SUBSET SUBSET N /\ \A V \in L, W \in SUBSET N : V \subseteq W => W \in L

\* Two walks that agree inherit the same.
LEMMA InheritedAgree ==
  ASSUME NEW N, NEW L, Upwards(N, L), NEW g, NEW h, WalksAgree(g, h, N, L),
         NEW st, NEW V \in L, Grown(st, V, N), NEW list \in Seq(N)
  PROVE  AllInherited(g, st, list) = AllInherited(h, st, list) /\ Grown(AllInherited(g, st, list), V, N)
<1>1. PICK n \in Nat : n = Len(list) /\ \A i \in 1 .. n : list[i] \in N
  OBVIOUS
<1>2. PICK at : InheritedBy(at, g, st, list) /\ AllInherited(g, st, list) = at[n]
  BY <1>1, InheritedRuns
<1>3. PICK to : InheritedBy(to, h, st, list) /\ AllInherited(h, st, list) = to[n]
  BY <1>1, InheritedRuns
<1> DEFINE Good == {i \in Nat : i <= n => at[i] = to[i] /\ Grown(at[i], V, N)}
<1>4. 0 \in Good
  BY <1>2, <1>3 DEF InheritedBy
<1>5. ASSUME NEW i \in Nat, i \in Good
      PROVE  i + 1 \in Good
  <2> SUFFICES ASSUME i + 1 <= n PROVE at[i + 1] = to[i + 1] /\ Grown(at[i + 1], V, N)
    OBVIOUS
  <2>1. i + 1 \in 1 .. n /\ (i + 1) - 1 = i /\ i <= n
    BY <1>1
  <2>2. PICK acc : acc = at[i]
    OBVIOUS
  <2>3. acc = to[i] /\ Grown(acc, V, N)
    BY <1>5, <2>1, <2>2
  <2>4. PICK parent \in N : parent = list[i + 1]
    BY <1>1, <2>1
  <2>5. at[i + 1] = Inherited(g, acc, parent) /\ to[i + 1] = Inherited(h, acc, parent)
    BY <1>1, <1>2, <1>3, <2>1, <2>2, <2>3, <2>4 DEF InheritedBy
  <2>6. acc.visited \in L
    BY <2>3 DEF Grown, Upwards
  <2>7. PICK c \in N \X L : c = <<parent, acc.visited>>
    BY <2>6
  <2>8. PICK got : got = g[c]
    OBVIOUS
  <2>9. got = h[c] /\ Grown(got, acc.visited, N)
    BY <2>7, <2>8 DEF WalksAgree
  <2>10. CASE ~acc.ok
    <3>1. Inherited(g, acc, parent) = acc /\ Inherited(h, acc, parent) = acc
      BY <2>10 DEF Inherited
    <3> QED BY <2>3, <2>5, <3>1
  <2>11. CASE acc.ok
    <3>1. /\ Inherited(g, acc, parent) = [got EXCEPT !.perms = @ \union acc.perms]
          /\ Inherited(h, acc, parent) = [got EXCEPT !.perms = @ \union acc.perms]
      BY <2>7, <2>8, <2>9, <2>11 DEF Inherited
    <3>2. PICK r : r = [got EXCEPT !.perms = @ \union acc.perms]
      OBVIOUS
    <3>3. r = [ok |-> got.ok, visited |-> got.visited, perms |-> got.perms \union acc.perms]
      BY <2>9, <3>2 DEF Grown
    <3>4. Grown(r, V, N)
      BY <2>3, <2>9, <3>3 DEF Grown
    <3> QED BY <2>5, <3>1, <3>2, <3>4
  <2> QED BY <2>10, <2>11
<1>6. n \in Good
  <2> HIDE DEF Good
  <2> QED BY <1>4, <1>5, NatSetInduction
<1> QED BY <1>2, <1>3, <1>6

\* The sets of names V that leave at most k of the names N.
AllBut(N, k) == {V \in SUBSET N : Cardinality(N \ V) <= k}

LEMMA RoleNamesFinite ==
  ASSUME NEW P, RolesOK(P)
  PROVE  IsFiniteSet(RoleNames(P))
<1>1. ASSUME NEW r \in DOMAIN P.roles
      PROVE  IsFiniteSet(Range(P.roles[r].inherits))
  <2>1. PICK list : list = P.roles[r].inherits
    OBVIOUS
  <2>2. list \in Seq(Range(list))
    BY <2>1 DEF RolesOK
  <2>3. IsFiniteSet(DOMAIN list)
    <3>1. Len(list) \in Nat /\ DOMAIN list = 1 .. Len(list)
      BY <2>2
    <3> QED BY <3>1, FS_Interval
  <2>4. list \in Surjection(DOMAIN list, Range(list))
    BY <2>2 DEF Surjection, Range
  <2>5. IsFiniteSet(Range(list))
    BY <2>3, <2>4, FS_Surjection
  <2> QED BY <2>1, <2>5
<1>2. PICK S : S = {Range(P.roles[r].inherits) : r \in DOMAIN P.roles}
  OBVIOUS
<1>3. IsFiniteSet(S)
  <2>1. PICK f : f = [r \in DOMAIN P.roles |-> Range(P.roles[r].inherits)]
    OBVIOUS
  <2>2. f \in Surjection(DOMAIN P.roles, S)
    BY <1>2, <2>1 DEF Surjection
  <2> QED BY <2>2, FS_Surjection DEF RolesOK
<1>4. \A T \in S : IsFiniteSet(T)
  BY <1>1, <1>2
<1>5. IsFiniteSet(UNION S)
  BY <1>3, <1>4, FS_UNION
<1> QED BY <1>2, <1>5, FS_Union DEF RolesOK, RoleNames

LEMMA RoleIsName ==
  ASSUME NEW P, RolesOK(P), NEW x \in DOMAIN P.roles
  PROVE  x \in RoleNames(P) /\ P.roles[x].inherits \in Seq(RoleNames(P))
<1>1. PICK list : list = P.roles[x].inherits
  OBVIOUS
<1>2. list \in Seq(Range(list)) /\ Range(list) \subseteq RoleNames(P)
  BY <1>1 DEF RolesOK, RoleNames
<1>3. list \in Seq(RoleNames(P))
  BY <1>2
<1> QED BY <1>1, <1>3 DEF RoleNames

\* A set that leaves one name less.
LEMMA AllButOneMore ==
  ASSUME NEW N, IsFiniteSet(N), NEW k \in Nat, NEW V \in AllBut(N, k + 1), NEW x \in N, x \notin V
  PROVE  V \union {x} \in AllBut(N, k)
<1>1. IsFiniteSet(N \ V) /\ Cardinality(N \ V) \in Nat
  BY FS_Subset, FS_CardinalityType
<1>2. x \in N \ V /\ N \ (V \union {x}) = (N \ V) \ {x}
  OBVIOUS
<1>3. Cardinality((N \ V) \ {x}) = Cardinality(N \ V) - 1
  BY <1>1, <1>2, FS_RemoveElement
<1> QED BY <1>1, <1>2, <1>3 DEF AllBut

LEMMA AllButUpwards ==
  ASSUME NEW N, IsFiniteSet(N), NEW k \in Nat, NEW V \in AllBut(N, k), NEW W \in SUBSET N, V \subseteq W
  PROVE  W \in AllBut(N, k)
<1>1. N \ W \subseteq N \ V /\ IsFiniteSet(N \ V)
  BY FS_Subset
<1>2. Cardinality(N \ W) <= Cardinality(N \ V) /\ Cardinality(N \ W) \in Nat /\ Cardinality(N \ V) \in Nat
  BY <1>1, FS_Subset, FS_CardinalityType
<1> QED BY <1>2 DEF AllBut

LEMMA AllButs ==
  ASSUME NEW N, IsFiniteSet(N)
  PROVE  /\ AllBut(N, 0) = {N} /\ Cardinality(N) \in Nat /\ AllBut(N, Cardinality(N)) = SUBSET N
         /\ \A k \in Nat : AllBut(N, k) \subseteq AllBut(N, k + 1) /\ AllBut(N, k) \in SUBSET SUBSET N
<1>1. \A V \in SUBSET N : IsFiniteSet(N \ V) /\ Cardinality(N \ V) \in Nat /\ Cardinality(N \ V) <= Cardinality(N)
  BY FS_Subset, FS_CardinalityType
<1>2. Cardinality(N) \in Nat
  BY FS_CardinalityType
<1>3. AllBut(N, 0) = {N}
  <2>1. N \ N = {} /\ Cardinality({}) = 0
    BY FS_EmptySet
  <2>2. ASSUME NEW V \in SUBSET N, Cardinality(N \ V) <= 0
        PROVE  V = N
    <3>1. Cardinality(N \ V) = 0
      BY <1>1, <2>2
    <3>2. N \ V = {}
      BY <1>1, <3>1, FS_EmptySet
    <3> QED BY <3>2
  <2> QED BY <2>1, <2>2 DEF AllBut
<1>4. AllBut(N, Cardinality(N)) = SUBSET N
  BY <1>1 DEF AllBut
<1>5. \A k \in Nat : AllBut(N, k) \subseteq AllBut(N, k + 1)
  BY <1>1 DEF AllBut
<1> QED BY <1>2, <1>3, <1>4, <1>5 DEF AllBut

\* Walks that agree where at most k names are left agree where one more is.
LEMMA WalkFromAgree ==
  ASSUME NEW P, RolesOK(P), NEW k \in Nat, NEW g, NEW h,
         WalksAgree(g, h, RoleNames(P), AllBut(RoleNames(P), k)),
         NEW x \in RoleNames(P), NEW V \in AllBut(RoleNames(P), k + 1)
  PROVE  WalkFrom(g, P, x, V) = WalkFrom(h, P, x, V) /\ Grown(WalkFrom(g, P, x, V), V, RoleNames(P))
<1>1. PICK N : N = RoleNames(P)
  OBVIOUS
<1>2. IsFiniteSet(N) /\ V \in SUBSET N /\ x \in N
  BY <1>1, RoleNamesFinite DEF AllBut
<1>3. CASE x \in V \/ x \notin DOMAIN P.roles
  <2>1. PICK r : r = [ok |-> FALSE, visited |-> V \union {x}, perms |-> {}]
    OBVIOUS
  <2>2. Grown(r, V, N)
    BY <1>2, <2>1 DEF Grown
  <2> QED BY <1>1, <1>3, <2>1, <2>2 DEF WalkFrom
<1>4. CASE x \notin V /\ x \in DOMAIN P.roles
  <2>1. PICK W : W = V \union {x}
    OBVIOUS
  <2>2. PICK L : L = AllBut(N, k)
    OBVIOUS
  <2>3. W \in L /\ L \in SUBSET SUBSET N
    BY <1>1, <1>2, <1>4, <2>1, <2>2, AllButOneMore DEF AllBut
  <2>4. Upwards(N, L)
    BY <1>2, <2>2, <2>3, AllButUpwards DEF Upwards
  <2>5. PICK list : list = P.roles[x].inherits
    OBVIOUS
  <2>6. list \in Seq(N)
    BY <1>1, <1>4, <2>5, RoleIsName
  <2>7. PICK st : st = [ok |-> TRUE, visited |-> W, perms |-> P.roles[x].permissions]
    OBVIOUS
  <2>8. Grown(st, W, N)
    BY <2>3, <2>7 DEF Grown
  <2>9. WalksAgree(g, h, N, L)
    BY <1>1, <2>2
  <2>10. AllInherited(g, st, list) = AllInherited(h, st, list) /\ Grown(AllInherited(g, st, list), W, N)
    BY ONLY <2>3, <2>4, <2>6, <2>8, <2>9, InheritedAgree
  <2>11. WalkFrom(g, P, x, V) = AllInherited(g, st, list) /\ WalkFrom(h, P, x, V) = AllInherited(h, st, list)
    BY <1>4, <2>1, <2>5, <2>7 DEF WalkFrom
  <2>12. Grown(AllInherited(g, st, list), V, N)
    BY <2>1, <2>10 DEF Grown
  <2> QED BY <1>1, <2>10, <2>11, <2>12
<1> QED BY <1>3, <1>4

\* The walk is well defined: a set that has every name stops it.
LEMMA WalksExist ==
  ASSUME NEW P, RolesOK(P)
  PROVE  \E g : Walks(g, P)
<1>1. PICK N : N = RoleNames(P)
  OBVIOUS
<1>2. IsFiniteSet(N)
  BY <1>1, RoleNamesFinite
<1> DEFINE Part(g, k) ==
             /\ g = [c \in N \X AllBut(N, k) |-> WalkFrom(g, P, c[1], c[2])]
             /\ \A c \in N \X AllBut(N, k) : Grown(g[c], c[2], N)
           Good == {k \in Nat : \E g : Part(g, k)}
<1>3. 0 \in Good
  <2>1. PICK g : g = [c \in N \X AllBut(N, 0) |-> [ok |-> FALSE, visited |-> N, perms |-> {}]]
    OBVIOUS
  <2>2. ASSUME NEW c \in N \X AllBut(N, 0)
        PROVE  g[c] = WalkFrom(g, P, c[1], c[2]) /\ Grown(g[c], c[2], N)
    <3>1. c[1] \in N /\ c[2] = N
      BY <1>2, AllButs
    <3>2. c[2] \union {c[1]} = N
      BY <3>1
    <3>3. WalkFrom(g, P, c[1], c[2]) = [ok |-> FALSE, visited |-> N, perms |-> {}]
      BY <3>1, <3>2 DEF WalkFrom
    <3>4. PICK r : r = [ok |-> FALSE, visited |-> N, perms |-> {}]
      OBVIOUS
    <3>5. Grown(r, N, N)
      BY <3>4 DEF Grown
    <3>6. g[c] = r
      BY <2>1, <3>4
    <3> QED BY <3>1, <3>3, <3>4, <3>5, <3>6
  <2>3. g = [c \in N \X AllBut(N, 0) |-> g[c]]
    BY <2>1
  <2>4. [c \in N \X AllBut(N, 0) |-> g[c]] = [c \in N \X AllBut(N, 0) |-> WalkFrom(g, P, c[1], c[2])]
    BY <2>2
  <2>5. Part(g, 0)
    BY <2>2, <2>3, <2>4
  <2> QED BY <2>5
<1>4. ASSUME NEW k \in Nat, k \in Good
      PROVE  k + 1 \in Good
  <2>1. PICK g : Part(g, k)
    BY <1>4
  <2>2. PICK h : h = [c \in N \X AllBut(N, k + 1) |-> WalkFrom(g, P, c[1], c[2])]
    OBVIOUS
  <2>3. ASSUME NEW c \in N \X AllBut(N, k)
        PROVE  g[c] = h[c]
    <3>1. c \in N \X AllBut(N, k + 1)
      BY <1>2, AllButs
    <3>2. h[c] = WalkFrom(g, P, c[1], c[2])
      BY <2>2, <3>1
    <3>3. g[c] = WalkFrom(g, P, c[1], c[2])
      BY <2>1
    <3> QED BY <3>2, <3>3
  <2>4. WalksAgree(g, h, N, AllBut(N, k))
    BY <2>1, <2>3 DEF WalksAgree
  <2>5. ASSUME NEW c \in N \X AllBut(N, k + 1)
        PROVE  h[c] = WalkFrom(h, P, c[1], c[2]) /\ Grown(h[c], c[2], N)
    <3>1. c[1] \in N /\ c[2] \in AllBut(N, k + 1)
      OBVIOUS
    <3>2. /\ WalkFrom(g, P, c[1], c[2]) = WalkFrom(h, P, c[1], c[2])
          /\ Grown(WalkFrom(g, P, c[1], c[2]), c[2], N)
      BY <1>1, <2>4, <3>1, WalkFromAgree
    <3>3. h[c] = WalkFrom(g, P, c[1], c[2])
      BY <2>2
    <3> QED BY <3>2, <3>3
  <2>6. h = [c \in N \X AllBut(N, k + 1) |-> h[c]]
    BY <2>2
  <2>7. [c \in N \X AllBut(N, k + 1) |-> h[c]] = [c \in N \X AllBut(N, k + 1) |-> WalkFrom(h, P, c[1], c[2])]
    BY <2>5
  <2>8. Part(h, k + 1)
    BY <2>5, <2>6, <2>7
  <2> QED BY <2>8
<1>5. Cardinality(N) \in Good
  <2> HIDE DEF Good
  <2> QED BY <1>2, <1>3, <1>4, AllButs, NatSetInduction
<1>6. PICK g : Part(g, Cardinality(N))
  BY <1>5
<1>7. AllBut(N, Cardinality(N)) = SUBSET N
  BY <1>2, AllButs
<1>8. Walks(g, P)
  BY <1>1, <1>6, <1>7 DEF Walks
<1> QED BY <1>8

\* The parents of the roles R are among them.
ClosedRoles(P, R) == \A p \in R : Parents(P, p) \subseteq R

\* p lists r at place i of its parents.
Lists(P, p, i, r) == i \in DOMAIN P.roles[p].inherits /\ P.roles[p].inherits[i] = r

\* The roles D are the ones reached from x, defined all of them, and each along one path.
TreeFrom(P, x, D) ==
  /\ D \subseteq DOMAIN P.roles /\ x \in D /\ ClosedRoles(P, D)
  /\ \A R : x \in R /\ ClosedRoles(P, R) => D \subseteq R
  /\ \A p \in D : \A i : ~Lists(P, p, i, x)
  /\ \A p \in D, q \in D : \A i, j, r : Lists(P, p, i, r) /\ Lists(P, q, j, r) => p = q /\ i = j

PermissionsOf(P, D) == UNION {P.roles[r].permissions : r \in D}

LEMMA ListsParent ==
  ASSUME NEW P, NEW p \in DOMAIN P.roles, NEW i, NEW r, Lists(P, p, i, r)
  PROVE  r \in Parents(P, p)
BY DEF Lists, Parents, Range

LEMMA ParentIsListed ==
  ASSUME NEW P, NEW p \in DOMAIN P.roles, NEW r \in Parents(P, p)
  PROVE  \E i : Lists(P, p, i, r)
BY DEF Lists, Parents, Range

LEMMA TreesAgree ==
  ASSUME NEW P, NEW x, NEW D, NEW E, TreeFrom(P, x, D), TreeFrom(P, x, E)
  PROVE  D = E
BY DEF TreeFrom

\* Each role but the first is listed by one of the tree.
LEMMA TreeEnters ==
  ASSUME NEW P, NEW x, NEW D, TreeFrom(P, x, D), NEW r \in D, r # x
  PROVE  \E p \in D : \E i : Lists(P, p, i, r)
<1>1. SUFFICES ASSUME \A p \in D : \A i : ~Lists(P, p, i, r) PROVE FALSE
  OBVIOUS
<1>2. PICK R : R = D \ {r}
  OBVIOUS
<1>3. ASSUME NEW p \in R, NEW s \in Parents(P, p)
      PROVE  s \in R
  <2>1. p \in DOMAIN P.roles /\ p \in D /\ s \in D
    BY <1>2 DEF TreeFrom, ClosedRoles
  <2>2. \E i : Lists(P, p, i, s)
    BY <2>1, ParentIsListed
  <2> QED BY <1>1, <1>2, <2>1, <2>2
<1>4. ClosedRoles(P, R)
  BY <1>3 DEF ClosedRoles
<1>5. x \in R
  BY <1>2 DEF TreeFrom
<1> QED BY <1>2, <1>4, <1>5 DEF TreeFrom

\* The roles of D that every closed set has which has y.
Branch(P, D, y) == {r \in D : \A R : y \in R /\ ClosedRoles(P, R) => r \in R}

\* What a parent reaches of a tree is a tree, without the role that lists it.
LEMMA BranchIsTree ==
  ASSUME NEW P, NEW x, NEW D, TreeFrom(P, x, D), NEW j, NEW y, Lists(P, x, j, y)
  PROVE  TreeFrom(P, y, Branch(P, D, y)) /\ Branch(P, D, y) \subseteq D \ {x}
<1>1. PICK B : B = Branch(P, D, y)
  OBVIOUS
<1>2. x \in D /\ x \in DOMAIN P.roles /\ D \subseteq DOMAIN P.roles /\ B \subseteq D
  BY <1>1 DEF TreeFrom, Branch
<1>3. y \in D /\ y # x
  BY <1>2, ListsParent DEF TreeFrom, ClosedRoles
<1>4. y \in B
  BY <1>1, <1>3 DEF Branch
<1>5. ClosedRoles(P, B)
  <2>1. ASSUME NEW p \in B, NEW s \in Parents(P, p)
        PROVE  s \in B
    <3>1. s \in D
      BY <1>2 DEF TreeFrom, ClosedRoles
    <3>2. ASSUME NEW R, y \in R, ClosedRoles(P, R)
          PROVE  s \in R
      <4>1. p \in R
        BY <1>1, <3>2 DEF Branch
      <4> QED BY <3>2, <4>1 DEF ClosedRoles
    <3> QED BY <1>1, <3>1, <3>2 DEF Branch
  <2> QED BY <2>1 DEF ClosedRoles
<1>6. \A R : y \in R /\ ClosedRoles(P, R) => B \subseteq R
  BY <1>1 DEF Branch
<1>7. x \notin B
  <2>1. PICK R : R = D \ {x}
    OBVIOUS
  <2>2. ASSUME NEW p \in R, NEW s \in Parents(P, p)
        PROVE  s \in R
    <3>1. p \in DOMAIN P.roles /\ p \in D /\ s \in D
      BY <1>2, <2>1 DEF TreeFrom, ClosedRoles
    <3>2. \E i : Lists(P, p, i, s)
      BY <3>1, ParentIsListed
    <3> QED BY <2>1, <3>1, <3>2 DEF TreeFrom
  <2>3. ClosedRoles(P, R)
    BY <2>2 DEF ClosedRoles
  <2> QED BY <1>3, <1>6, <2>1, <2>3
<1>8. \A p \in B : \A i : ~Lists(P, p, i, y)
  BY <1>2, <1>7 DEF TreeFrom
<1>9. \A p \in B, q \in B : \A i, k, r : Lists(P, p, i, r) /\ Lists(P, q, k, r) => p = q /\ i = k
  BY <1>2 DEF TreeFrom
<1>10. TreeFrom(P, y, B)
  BY <1>2, <1>4, <1>5, <1>6, <1>8, <1>9 DEF TreeFrom
<1> QED BY <1>1, <1>2, <1>7, <1>10

\* A parent is not reached from another place of the list.
LEMMA BranchesApart ==
  ASSUME NEW P, NEW x, NEW D, TreeFrom(P, x, D), NEW j, NEW y, Lists(P, x, j, y),
         NEW i, NEW z, Lists(P, x, i, z), i # j
  PROVE  y \notin Branch(P, D, z)
<1>1. PICK B : B = Branch(P, D, z)
  OBVIOUS
<1>2. TreeFrom(P, z, B) /\ B \subseteq D /\ x \notin B /\ x \in D
  BY <1>1, BranchIsTree DEF TreeFrom
<1>3. y # z
  BY <1>2 DEF TreeFrom
<1>4. SUFFICES ASSUME y \in B PROVE FALSE
  BY <1>1
<1>5. PICK p \in B : \E k : Lists(P, p, k, y)
  BY <1>2, <1>3, <1>4, TreeEnters
<1> QED BY <1>2, <1>5 DEF TreeFrom

LEMMA BranchesDisjoint ==
  ASSUME NEW P, NEW x, NEW D, TreeFrom(P, x, D), NEW j, NEW y, Lists(P, x, j, y),
         NEW i, NEW z, Lists(P, x, i, z), i # j
  PROVE  Branch(P, D, y) \intersect Branch(P, D, z) = {}
<1>1. PICK B : B = Branch(P, D, y)
  OBVIOUS
<1>2. PICK C : C = Branch(P, D, z)
  OBVIOUS
<1>3. TreeFrom(P, y, B) /\ TreeFrom(P, z, C) /\ B \subseteq D /\ C \subseteq D
  BY <1>1, <1>2, BranchIsTree
<1>4. y \notin C /\ z \notin B
  BY <1>1, <1>2, BranchesApart
<1>5. PICK R : R = B \ C
  OBVIOUS
<1>6. ASSUME NEW p \in R, NEW s \in Parents(P, p)
      PROVE  s \in R
  <2>1. s \in B /\ p \in DOMAIN P.roles /\ p \in D /\ p \in B /\ p \notin C
    BY <1>3, <1>5 DEF TreeFrom, ClosedRoles
  <2>2. SUFFICES ASSUME s \in C PROVE FALSE
    BY <1>5, <2>1
  <2>3. s # z
    BY <1>4, <2>1
  <2>4. PICK q \in C : \E k : Lists(P, q, k, s)
    BY <1>3, <2>2, <2>3, TreeEnters
  <2>5. \E k : Lists(P, p, k, s)
    BY <2>1, ParentIsListed
  <2>6. q \in D
    BY <1>3
  <2>7. p = q
    BY <2>1, <2>4, <2>5, <2>6 DEF TreeFrom
  <2> QED BY <2>1, <2>4, <2>7
<1>7. ClosedRoles(P, R)
  BY <1>6 DEF ClosedRoles
<1>8. y \in R
  BY <1>3, <1>4, <1>5 DEF TreeFrom
<1>9. B \subseteq R
  BY <1>3, <1>7, <1>8 DEF TreeFrom
<1> QED BY <1>1, <1>2, <1>5, <1>9

\* F[j]: the tree of the j-th of the first i parents of x, none of them with another or with V.
Forest(P, x, V, i, F) ==
  /\ \A j \in 1 .. i : TreeFrom(P, P.roles[x].inherits[j], F[j]) /\ F[j] \intersect V = {} /\ x \notin F[j]
  /\ \A j \in 1 .. i, k \in 1 .. i : j # k => F[j] \intersect F[k] = {}

\* A role over the trees of its parents is a tree.
LEMMA ForestIsTree ==
  ASSUME NEW P, NEW x \in DOMAIN P.roles, NEW n \in Nat, DOMAIN P.roles[x].inherits = 1 .. n,
         NEW V, NEW F, Forest(P, x, V, n, F)
  PROVE  TreeFrom(P, x, {x} \union UNION {F[j] : j \in 1 .. n})
<1>1. PICK list : list = P.roles[x].inherits
  OBVIOUS
<1>2. PICK D : D = {x} \union UNION {F[j] : j \in 1 .. n}
  OBVIOUS
<1>3. \A j \in 1 .. n : TreeFrom(P, list[j], F[j]) /\ x \notin F[j] /\ F[j] \subseteq D /\ list[j] \in F[j]
  <2>1. ASSUME NEW j \in 1 .. n
        PROVE  TreeFrom(P, list[j], F[j]) /\ x \notin F[j]
    BY <1>1 DEF Forest
  <2>2. ASSUME NEW j \in 1 .. n
        PROVE  list[j] \in F[j]
    BY <2>1 DEF TreeFrom
  <2>3. ASSUME NEW j \in 1 .. n
        PROVE  F[j] \subseteq D
    BY <1>2
  <2> QED BY <2>1, <2>2, <2>3
<1>4. \A r \in D : r = x \/ \E j \in 1 .. n : r \in F[j]
  BY <1>2
<1>5. D \subseteq DOMAIN P.roles /\ x \in D
  BY <1>2, <1>3, <1>4 DEF TreeFrom
<1>6. \A i, r : Lists(P, x, i, r) => i \in 1 .. n /\ r = list[i] /\ r \in F[i]
  BY <1>1, <1>3 DEF Lists
<1>7. \A j \in 1 .. n : \A p \in F[j] : \A i, r : Lists(P, p, i, r) => r \in F[j]
  BY <1>3, ListsParent DEF TreeFrom, ClosedRoles
<1>8. ClosedRoles(P, D)
  <2>1. ASSUME NEW p \in D, NEW r \in Parents(P, p)
        PROVE  r \in D
    <3>1. PICK i : Lists(P, p, i, r)
      BY <1>5, ParentIsListed
    <3> QED BY <1>3, <1>4, <1>6, <1>7, <3>1
  <2> QED BY <2>1 DEF ClosedRoles
<1>9. ASSUME NEW R, x \in R, ClosedRoles(P, R)
      PROVE  D \subseteq R
  <2>1. ASSUME NEW j \in 1 .. n
        PROVE  F[j] \subseteq R
    <3>1. list[j] \in Parents(P, x)
      BY <1>1 DEF Parents, Range
    <3> QED BY <1>3, <1>9, <3>1 DEF ClosedRoles, TreeFrom
  <2> QED BY <1>2, <1>9, <2>1
<1>10. \A p \in D : \A i : ~Lists(P, p, i, x)
  BY <1>3, <1>4, <1>6, <1>7
<1>11. \A j \in 1 .. n, k \in 1 .. n : \A r : r \in F[j] /\ r \in F[k] => j = k
  BY DEF Forest
<1>12. \A j \in 1 .. n : \A p \in F[j] : \A i : ~Lists(P, p, i, list[j])
  BY <1>3 DEF TreeFrom
<1>13. ASSUME NEW p \in D, NEW q \in D, NEW i, NEW k, NEW r, Lists(P, p, i, r), Lists(P, q, k, r)
       PROVE  p = q /\ i = k
  <2>1. CASE p = x /\ q = x
    <3>1. i \in 1 .. n /\ k \in 1 .. n /\ r \in F[i] /\ r \in F[k]
      BY <1>6, <1>13, <2>1
    <3> QED BY <1>11, <2>1, <3>1
  <2>2. CASE p = x /\ q # x
    <3>1. PICK b \in 1 .. n : q \in F[b]
      BY <1>4, <2>2
    <3>2. i \in 1 .. n /\ r = list[i] /\ r \in F[i]
      BY <1>6, <1>13, <2>2
    <3>3. r \in F[b]
      BY <1>7, <1>13, <3>1
    <3>4. b = i
      BY <1>11, <3>2, <3>3
    <3> QED BY <1>12, <1>13, <3>1, <3>2, <3>4
  <2>3. CASE p # x /\ q = x
    <3>1. PICK b \in 1 .. n : p \in F[b]
      BY <1>4, <2>3
    <3>2. k \in 1 .. n /\ r = list[k] /\ r \in F[k]
      BY <1>6, <1>13, <2>3
    <3>3. r \in F[b]
      BY <1>7, <1>13, <3>1
    <3>4. b = k
      BY <1>11, <3>2, <3>3
    <3> QED BY <1>12, <1>13, <3>1, <3>2, <3>4
  <2>4. CASE p # x /\ q # x
    <3>1. PICK j \in 1 .. n : p \in F[j]
      BY <1>4, <2>4
    <3>2. PICK b \in 1 .. n : q \in F[b]
      BY <1>4, <2>4
    <3>3. j = b
      BY <1>7, <1>11, <1>13, <3>1, <3>2
    <3> QED BY <1>3, <1>13, <3>1, <3>2, <3>3 DEF TreeFrom
  <2> QED BY <2>1, <2>2, <2>3, <2>4
<1>14. TreeFrom(P, x, D)
  BY <1>5, <1>8, <1>9, <1>10, <1>13 DEF TreeFrom
<1> QED BY <1>2, <1>14

\* The walk from x answers as the trees do: it succeeds when x has a tree without the roles V already
\* visited, and then has visited the tree and collected its permissions.
Honest(P, got, x, V) ==
  /\ got.ok => \E D : /\ TreeFrom(P, x, D) /\ V \intersect D = {}
                      /\ got.visited = V \union D /\ got.perms = PermissionsOf(P, D)
  /\ \A D : TreeFrom(P, x, D) /\ V \intersect D = {} => got.ok

HonestOn(g, P, L) ==
  \A c \in RoleNames(P) \X L : Grown(g[c], c[2], RoleNames(P)) /\ Honest(P, g[c], c[1], c[2])

\* What is known of the first i parents of x when they are inherited.
Gathered(P, x, W, i, F, acc) ==
  /\ Forest(P, x, W, i, F)
  /\ acc.visited = W \union UNION {F[j] : j \in 1 .. i}
  /\ acc.perms = P.roles[x].permissions \union UNION {PermissionsOf(P, F[j]) : j \in 1 .. i}

\* One parent more.
LEMMA GatherOne ==
  ASSUME NEW P, NEW x, NEW W, x \in W, NEW i \in Nat, NEW F, NEW acc, Gathered(P, x, W, i, F, acc),
         NEW D, TreeFrom(P, P.roles[x].inherits[i + 1], D), acc.visited \intersect D = {},
         NEW got, got.visited = acc.visited \union D, got.perms = acc.perms \union PermissionsOf(P, D)
  PROVE  \E G : Gathered(P, x, W, i + 1, G, got)
<1>1. PICK G : G = [j \in 1 .. i + 1 |-> IF j = i + 1 THEN D ELSE F[j]]
  OBVIOUS
<1>2. G[i + 1] = D /\ \A j \in 1 .. i : G[j] = F[j]
  BY <1>1
<1>3. \A j \in 1 .. i + 1 : j = i + 1 \/ j \in 1 .. i
  OBVIOUS
<1>4. /\ W \intersect D = {} /\ x \notin D
      /\ \A j \in 1 .. i : F[j] \intersect D = {}
  BY DEF Gathered
<1>5. Forest(P, x, W, i + 1, G)
  <2>1. ASSUME NEW j \in 1 .. i + 1
        PROVE  TreeFrom(P, P.roles[x].inherits[j], G[j]) /\ G[j] \intersect W = {} /\ x \notin G[j]
    <3>1. CASE j = i + 1
      BY <1>2, <1>4, <3>1
    <3>2. CASE j \in 1 .. i
      BY <1>2, <3>2 DEF Gathered, Forest
    <3> QED BY <1>3, <3>1, <3>2
  <2>2. ASSUME NEW j \in 1 .. i + 1, NEW k \in 1 .. i + 1, j # k
        PROVE  G[j] \intersect G[k] = {}
    <3>1. CASE j \in 1 .. i /\ k \in 1 .. i
      BY <1>2, <2>2, <3>1 DEF Gathered, Forest
    <3>2. CASE j = i + 1 /\ k \in 1 .. i
      BY <1>2, <1>4, <3>2
    <3>3. CASE k = i + 1 /\ j \in 1 .. i
      BY <1>2, <1>4, <3>3
    <3> QED BY <1>3, <2>2, <3>1, <3>2, <3>3
  <2> QED BY <2>1, <2>2 DEF Forest
<1>6. got.visited = W \union UNION {G[j] : j \in 1 .. i + 1}
  <2>1. UNION {G[j] : j \in 1 .. i + 1} = D \union UNION {F[j] : j \in 1 .. i}
    BY <1>2, <1>3
  <2> QED BY <2>1 DEF Gathered
<1>7. got.perms = P.roles[x].permissions \union UNION {PermissionsOf(P, G[j]) : j \in 1 .. i + 1}
  <2>1. PermissionsOf(P, G[i + 1]) = PermissionsOf(P, D) /\ \A j \in 1 .. i : PermissionsOf(P, G[j]) = PermissionsOf(P, F[j])
    BY <1>2
  <2>2. UNION {PermissionsOf(P, G[j]) : j \in 1 .. i + 1}
          = PermissionsOf(P, D) \union UNION {PermissionsOf(P, F[j]) : j \in 1 .. i}
    BY <1>3, <2>1
  <2> QED BY <2>2 DEF Gathered
<1> QED BY <1>5, <1>6, <1>7 DEF Gathered

\* got is acc with what a parent has inherited.
InheritsTree(P, got, acc, parent, W) ==
  /\ Grown(got, W, RoleNames(P))
  /\ got.ok => /\ acc.ok
               /\ \E D : /\ TreeFrom(P, parent, D) /\ acc.visited \intersect D = {}
                         /\ got.visited = acc.visited \union D
                         /\ got.perms = acc.perms \union PermissionsOf(P, D)
  /\ \A D : acc.ok /\ TreeFrom(P, parent, D) /\ acc.visited \intersect D = {} => got.ok

\* What inheriting a parent does, by the walk from it.
LEMMA InheritOne ==
  ASSUME NEW P, NEW L, Upwards(RoleNames(P), L), NEW g, HonestOn(g, P, L),
         NEW W \in L, NEW acc, Grown(acc, W, RoleNames(P)), NEW parent \in RoleNames(P)
  PROVE  InheritsTree(P, Inherited(g, acc, parent), acc, parent, W)
<1>1. PICK N : N = RoleNames(P)
  OBVIOUS
<1>2. PICK X : X = acc.visited
  OBVIOUS
<1>3. X \in L /\ W \subseteq X
  BY <1>2 DEF Grown, Upwards
<1>4. PICK c : c = <<parent, X>>
  OBVIOUS
<1>5. PICK r : r = g[c]
  OBVIOUS
<1>6. c \in N \X L /\ c[1] = parent /\ c[2] = X
  BY <1>1, <1>3, <1>4
<1>7. Grown(r, X, N) /\ Honest(P, r, parent, X)
  BY <1>1, <1>5, <1>6 DEF HonestOn
<1>8. PICK got : got = Inherited(g, acc, parent)
  OBVIOUS
<1>9. CASE ~acc.ok
  <2>1. got = acc
    BY <1>8, <1>9 DEF Inherited
  <2> QED BY <1>8, <1>9, <2>1 DEF InheritsTree
<1>10. CASE acc.ok
  <2>1. got = [r EXCEPT !.perms = @ \union acc.perms]
    BY <1>2, <1>4, <1>5, <1>8, <1>10 DEF Inherited
  <2>2. got = [ok |-> r.ok, visited |-> r.visited, perms |-> r.perms \union acc.perms]
    BY <1>7, <2>1 DEF Grown
  <2>3. got.ok = r.ok /\ got.visited = r.visited /\ got.perms = r.perms \union acc.perms
    BY <2>2
  <2>4. Grown(got, W, N)
    BY <1>3, <1>7, <2>2, <2>3 DEF Grown
  <2>5. ASSUME got.ok
        PROVE  \E D : /\ TreeFrom(P, parent, D) /\ acc.visited \intersect D = {}
                      /\ got.visited = acc.visited \union D
                      /\ got.perms = acc.perms \union PermissionsOf(P, D)
    <3>1. PICK D : /\ TreeFrom(P, parent, D) /\ X \intersect D = {}
                   /\ r.visited = X \union D /\ r.perms = PermissionsOf(P, D)
      BY <1>7, <2>3, <2>5 DEF Honest
    <3>2. got.visited = acc.visited \union D /\ got.perms = acc.perms \union PermissionsOf(P, D)
      BY <1>2, <2>3, <3>1
    <3> QED BY <1>2, <3>1, <3>2
  <2>6. ASSUME NEW D, TreeFrom(P, parent, D), acc.visited \intersect D = {}
        PROVE  got.ok
    BY <1>2, <1>7, <2>3, <2>6 DEF Honest
  <2> QED BY <1>1, <1>8, <1>10, <2>4, <2>5, <2>6 DEF InheritsTree
<1> QED BY <1>9, <1>10

\* A role whose parents' walks answer as the trees do answers so itself.
LEMMA RoleHonest ==
  ASSUME NEW P, RolesOK(P), NEW L, Upwards(RoleNames(P), L), NEW g, HonestOn(g, P, L),
         NEW x \in DOMAIN P.roles, NEW V, x \notin V, V \union {x} \in L
  PROVE  Honest(P, WalkFrom(g, P, x, V), x, V)
<1>1. PICK N : N = RoleNames(P)
  OBVIOUS
<1>2. PICK W : W = V \union {x}
  OBVIOUS
<1>3. PICK list : list = P.roles[x].inherits
  OBVIOUS
<1>4. list \in Seq(N)
  BY <1>1, <1>3, RoleIsName
<1>5. PICK n \in Nat : n = Len(list) /\ DOMAIN list = 1 .. n /\ \A i \in 1 .. n : list[i] \in N
  BY <1>4
<1>6. PICK st : st = [ok |-> TRUE, visited |-> W, perms |-> P.roles[x].permissions]
  OBVIOUS
<1>7. PICK at : InheritedBy(at, g, st, list) /\ AllInherited(g, st, list) = at[n]
  BY <1>4, <1>5, InheritedRuns
<1>8. WalkFrom(g, P, x, V) = at[n]
  BY <1>2, <1>3, <1>6, <1>7 DEF WalkFrom
<1>9. W \in L /\ Grown(st, W, N)
  BY <1>1, <1>2, <1>6 DEF Grown, Upwards
<1>10. ASSUME NEW i \in Nat, i + 1 <= n, Grown(at[i], W, N)
       PROVE  InheritsTree(P, at[i + 1], at[i], list[i + 1], W)
  <2>1. i + 1 \in 1 .. n /\ (i + 1) - 1 = i
    BY <1>10
  <2>2. at[i + 1] = Inherited(g, at[i], list[i + 1])
    BY <1>5, <1>7, <2>1 DEF InheritedBy
  <2>3. list[i + 1] \in N
    BY <1>5, <2>1
  <2> QED BY <1>1, <1>9, <1>10, <2>2, <2>3, InheritOne
<1> DEFINE Good == {i \in Nat : i <= n => Grown(at[i], W, N) /\ (at[i].ok => \E F : Gathered(P, x, W, i, F, at[i]))}
<1>11. 0 \in Good
  <2>1. at[0] = st
    BY <1>7 DEF InheritedBy
  <2>2. PICK F : F = <<>>
    OBVIOUS
  <2>3. 1 .. 0 = {}
    OBVIOUS
  <2>4. Gathered(P, x, W, 0, F, st)
    BY <1>6, <2>3 DEF Gathered, Forest
  <2> QED BY <1>9, <2>1, <2>4
<1>12. ASSUME NEW i \in Nat, i \in Good
       PROVE  i + 1 \in Good
  <2> SUFFICES ASSUME i + 1 <= n
               PROVE  Grown(at[i + 1], W, N) /\ (at[i + 1].ok => \E F : Gathered(P, x, W, i + 1, F, at[i + 1]))
    OBVIOUS
  <2>1. Grown(at[i], W, N) /\ (at[i].ok => \E F : Gathered(P, x, W, i, F, at[i]))
    BY <1>12
  <2>2. PICK acc : acc = at[i]
    OBVIOUS
  <2>3. PICK got : got = at[i + 1]
    OBVIOUS
  <2>4. InheritsTree(P, got, acc, list[i + 1], W)
    BY <1>10, <2>1, <2>2, <2>3
  <2>5. Grown(got, W, N)
    BY <1>1, <2>4 DEF InheritsTree
  <2>6. ASSUME got.ok
        PROVE  \E F : Gathered(P, x, W, i + 1, F, got)
    <3>1. PICK D : /\ TreeFrom(P, list[i + 1], D) /\ acc.visited \intersect D = {}
                   /\ got.visited = acc.visited \union D
                   /\ got.perms = acc.perms \union PermissionsOf(P, D)
      BY <2>4, <2>6 DEF InheritsTree
    <3>2. PICK F : Gathered(P, x, W, i, F, acc)
      BY <2>1, <2>2, <2>4, <2>6 DEF InheritsTree
    <3>3. TreeFrom(P, P.roles[x].inherits[i + 1], D) /\ x \in W
      BY <1>2, <1>3, <3>1
    <3> QED BY <3>1, <3>2, <3>3, GatherOne
  <2> QED BY <2>3, <2>5, <2>6
<1>13. Nat \subseteq Good
  <2> HIDE DEF Good
  <2> QED BY <1>11, <1>12, NatSetInduction
<1>14. ASSUME at[n].ok
       PROVE  \E D : /\ TreeFrom(P, x, D) /\ V \intersect D = {}
                     /\ at[n].visited = V \union D /\ at[n].perms = PermissionsOf(P, D)
  <2>1. PICK F : Gathered(P, x, W, n, F, at[n])
    BY <1>13, <1>14
  <2>2. PICK D : D = {x} \union UNION {F[j] : j \in 1 .. n}
    OBVIOUS
  <2>3. Forest(P, x, W, n, F)
    BY <2>1 DEF Gathered
  <2>4. TreeFrom(P, x, D)
    BY <1>3, <1>5, <2>2, <2>3, ForestIsTree
  <2>5. V \intersect D = {}
    <3>1. \A j \in 1 .. n : F[j] \intersect W = {}
      BY <2>3 DEF Forest
    <3> QED BY <1>2, <2>2, <3>1
  <2>6. at[n].visited = V \union D
    BY <1>2, <2>1, <2>2 DEF Gathered
  <2>7. at[n].perms = PermissionsOf(P, D)
    BY <2>1, <2>2 DEF Gathered, PermissionsOf
  <2> QED BY <2>4, <2>5, <2>6, <2>7
<1>15. ASSUME NEW D, TreeFrom(P, x, D), V \intersect D = {}
       PROVE  at[n].ok
  <2> DEFINE Reach(i) == W \union UNION {Branch(P, D, list[j]) : j \in 1 .. i}
             Fine == {i \in Nat : i <= n => at[i].ok /\ at[i].visited \subseteq Reach(i)}
  <2>1. ASSUME NEW j \in 1 .. n
        PROVE  /\ TreeFrom(P, list[j], Branch(P, D, list[j])) /\ Branch(P, D, list[j]) \subseteq D \ {x}
               /\ \A i \in 1 .. n : i # j => Branch(P, D, list[i]) \intersect Branch(P, D, list[j]) = {}
    <3>1. \A i \in 1 .. n : Lists(P, x, i, list[i])
      BY <1>3, <1>5 DEF Lists
    <3> QED BY <1>15, <3>1, BranchIsTree, BranchesDisjoint
  <2>2. 0 \in Fine
    <3>1. at[0] = st
      BY <1>7 DEF InheritedBy
    <3>2. at[0].ok = TRUE /\ at[0].visited = W
      BY <1>6, <3>1
    <3> QED BY <3>2
  <2>3. ASSUME NEW i \in Nat, i \in Fine
        PROVE  i + 1 \in Fine
    <3> SUFFICES ASSUME i + 1 <= n PROVE at[i + 1].ok /\ at[i + 1].visited \subseteq Reach(i + 1)
      OBVIOUS
    <3>1. at[i].ok /\ at[i].visited \subseteq Reach(i)
      BY <2>3
    <3>2. PICK acc : acc = at[i]
      OBVIOUS
    <3>3. PICK got : got = at[i + 1]
      OBVIOUS
    <3>4. PICK B : B = Branch(P, D, list[i + 1])
      OBVIOUS
    <3>5. i + 1 \in 1 .. n /\ \A j \in 1 .. i : j \in 1 .. n /\ j # i + 1 /\ j \in 1 .. i + 1
      OBVIOUS
    <3>6. Grown(acc, W, N)
      BY <1>13, <3>2
    <3>7. InheritsTree(P, got, acc, list[i + 1], W)
      BY <1>10, <3>2, <3>3, <3>6
    <3>8. TreeFrom(P, list[i + 1], B) /\ B \subseteq D \ {x}
          /\ \A j \in 1 .. i : Branch(P, D, list[j]) \intersect B = {}
      BY <2>1, <3>4, <3>5
    <3>9. Reach(i) \intersect B = {}
      BY <1>2, <1>15, <3>8
    <3>10. acc.visited \intersect B = {} /\ acc.ok
      BY <3>1, <3>2, <3>9
    <3>11. got.ok
      BY <3>7, <3>8, <3>10 DEF InheritsTree
    <3>12. PICK E : TreeFrom(P, list[i + 1], E) /\ got.visited = acc.visited \union E
      BY <3>7, <3>11 DEF InheritsTree
    <3>13. E = B
      BY <3>8, <3>12, TreesAgree
    <3>14. Reach(i) \union B \subseteq Reach(i + 1)
      BY <3>4, <3>5
    <3>15. got.visited \subseteq Reach(i + 1)
      <4> HIDE DEF Reach
      <4> QED BY <3>1, <3>2, <3>12, <3>13, <3>14
    <3> QED BY <3>3, <3>11, <3>15
  <2>4. Nat \subseteq Fine
    <3> HIDE DEF Fine
    <3> QED BY <2>2, <2>3, NatSetInduction
  <2> QED BY <2>4
<1> QED BY <1>8, <1>14, <1>15 DEF Honest

\* The walk answers as the trees do, whatever was visited before: by the number of names left.
LEMMA WalkHonest ==
  ASSUME NEW P, RolesOK(P), NEW g, Walks(g, P)
  PROVE  HonestOn(g, P, SUBSET RoleNames(P))
<1>1. PICK N : N = RoleNames(P)
  OBVIOUS
<1>2. IsFiniteSet(N)
  BY <1>1, RoleNamesFinite
<1>3. ASSUME NEW x \in N, NEW V \in SUBSET N
      PROVE  g[<<x, V>>] = WalkFrom(g, P, x, V)
  <2>1. PICK c \in N \X SUBSET N : c = <<x, V>>
    OBVIOUS
  <2>2. c[1] = x /\ c[2] = V
    BY <2>1
  <2>3. g[c] = WalkFrom(g, P, c[1], c[2])
    BY <1>1 DEF Walks
  <2> QED BY <2>1, <2>2, <2>3
<1>4. ASSUME NEW x \in N, NEW V \in SUBSET N, x \in V \/ x \notin DOMAIN P.roles
      PROVE  Grown(g[<<x, V>>], V, N) /\ Honest(P, g[<<x, V>>], x, V)
  <2>1. PICK r : r = [ok |-> FALSE, visited |-> V \union {x}, perms |-> {}]
    OBVIOUS
  <2>2. g[<<x, V>>] = r
    BY <1>3, <1>4, <2>1 DEF WalkFrom
  <2>3. Grown(r, V, N)
    BY <1>4, <2>1 DEF Grown
  <2>4. \A D : TreeFrom(P, x, D) => x \in D /\ x \in DOMAIN P.roles
    BY DEF TreeFrom
  <2>5. Honest(P, r, x, V)
    BY <1>4, <2>1, <2>4 DEF Honest
  <2> QED BY <2>2, <2>3, <2>5
<1> DEFINE Good == {k \in Nat : HonestOn(g, P, AllBut(N, k))}
<1>5. 0 \in Good
  <2>1. ASSUME NEW c \in N \X AllBut(N, 0)
        PROVE  Grown(g[c], c[2], N) /\ Honest(P, g[c], c[1], c[2])
    <3>1. c[1] \in N /\ c[2] = N /\ c[2] \in SUBSET N /\ c[1] \in c[2]
      BY <1>2, AllButs
    <3>2. c = <<c[1], c[2]>>
      OBVIOUS
    <3>3. PICK x \in N, V \in SUBSET N : x = c[1] /\ V = c[2]
      BY <3>1
    <3> QED BY <1>4, <3>1, <3>2, <3>3
  <2> QED BY <1>1, <2>1 DEF HonestOn
<1>6. ASSUME NEW k \in Nat, k \in Good
      PROVE  k + 1 \in Good
  <2>1. PICK L : L = AllBut(N, k)
    OBVIOUS
  <2>2. Upwards(N, L)
    BY <1>2, <2>1, AllButUpwards, AllButs DEF Upwards
  <2>3. HonestOn(g, P, L)
    BY <1>6, <2>1
  <2>4. WalksAgree(g, g, N, L)
    BY <1>1, <2>3 DEF HonestOn, WalksAgree
  <2>5. ASSUME NEW x \in N, NEW V \in AllBut(N, k + 1)
        PROVE  Grown(g[<<x, V>>], V, N) /\ Honest(P, g[<<x, V>>], x, V)
    <3>1. V \in SUBSET N
      BY DEF AllBut
    <3>2. CASE x \in V \/ x \notin DOMAIN P.roles
      BY <1>4, <3>1, <3>2
    <3>3. CASE x \notin V /\ x \in DOMAIN P.roles
      <4>1. V \union {x} \in L
        BY <1>2, <2>1, <3>3, AllButOneMore
      <4>2. Honest(P, WalkFrom(g, P, x, V), x, V)
        BY <1>1, <2>2, <2>3, <3>3, <4>1, RoleHonest
      <4>3. Grown(WalkFrom(g, P, x, V), V, N)
        BY <1>1, <2>1, <2>4, WalkFromAgree
      <4> QED BY <1>3, <3>1, <4>2, <4>3
    <3> QED BY <3>2, <3>3
  <2>6. ASSUME NEW c \in N \X AllBut(N, k + 1)
        PROVE  Grown(g[c], c[2], N) /\ Honest(P, g[c], c[1], c[2])
    <3>1. PICK x \in N, V \in AllBut(N, k + 1) : x = c[1] /\ V = c[2]
      OBVIOUS
    <3>2. c = <<x, V>>
      BY <3>1
    <3> QED BY <2>5, <3>1, <3>2
  <2> QED BY <1>1, <2>6 DEF HonestOn
<1>7. Cardinality(N) \in Good
  <2> HIDE DEF Good
  <2> QED BY <1>2, <1>5, <1>6, AllButs, NatSetInduction
<1> QED BY <1>1, <1>2, <1>7, AllButs

\* resolve_role_permissions succeeds for the roles with a tree, and collects its permissions.
LEMMA ResolveFindsTree ==
  ASSUME NEW P, RolesOK(P), NEW x \in DOMAIN P.roles
  PROVE  /\ Resolve(P, x).ok \in BOOLEAN
         /\ Resolve(P, x).ok => \E D : TreeFrom(P, x, D) /\ Resolve(P, x).perms = PermissionsOf(P, D)
         /\ \A D : TreeFrom(P, x, D) => Resolve(P, x).ok
<1>1. PICK g : g = CHOOSE h : Walks(h, P)
  OBVIOUS
<1>2. Walks(g, P)
  BY <1>1, WalksExist
<1>3. PICK r : r = Resolve(P, x)
  OBVIOUS
<1>4. r = g[<<x, {}>>]
  BY <1>1, <1>3, ResolveIs
<1>5. HonestOn(g, P, SUBSET RoleNames(P))
  BY <1>2, WalkHonest
<1>6. PICK c \in RoleNames(P) \X SUBSET RoleNames(P) : c = <<x, {}>>
  BY RoleIsName
<1>7. c[1] = x /\ c[2] = {} /\ r = g[c]
  BY <1>4, <1>6
<1>8. Grown(r, {}, RoleNames(P)) /\ Honest(P, r, x, {})
  BY <1>5, <1>7 DEF HonestOn
<1>9. r.ok => \E D : TreeFrom(P, x, D) /\ r.perms = PermissionsOf(P, D)
  BY <1>8 DEF Honest
<1>10. \A D : TreeFrom(P, x, D) => r.ok
  BY <1>8 DEF Honest
<1> QED BY <1>3, <1>8, <1>9, <1>10 DEF Grown

\* The roles reached are the least set that has the first and the parents of all it has.
LEMMA ReachedIsLeast ==
  ASSUME NEW P, NEW x
  PROVE  /\ x \in Reached(P, x) /\ ClosedRoles(P, Reached(P, x))
         /\ \A R : x \in R /\ ClosedRoles(P, R) => Reached(P, x) \subseteq R
<1>1. PICK names : names = {x} \union UNION {Parents(P, r) : r \in DOMAIN P.roles}
  OBVIOUS
<1>2. PICK C : C = {R \in SUBSET names : x \in R /\ \A r \in R : Parents(P, r) \subseteq R}
  OBVIOUS
<1>3. PICK Z : Z = Reached(P, x)
  OBVIOUS
<1>4. Z = {r \in names : \A R \in C : r \in R}
  BY <1>1, <1>2, <1>3 DEF Reached
<1>5. \A r : Parents(P, r) \subseteq names
  BY <1>1 DEF Parents
<1>6. x \in Z
  BY <1>1, <1>2, <1>4
<1>7. ASSUME NEW p \in Z, NEW s \in Parents(P, p)
      PROVE  s \in Z
  <2>1. ASSUME NEW R \in C
        PROVE  s \in R
    <3>1. p \in R
      BY <1>4
    <3> QED BY <1>2, <3>1
  <2> QED BY <1>4, <1>5, <2>1
<1>8. ClosedRoles(P, Z)
  BY <1>7 DEF ClosedRoles
<1>9. ASSUME NEW R, x \in R, ClosedRoles(P, R)
      PROVE  Z \subseteq R
  <2>1. PICK S : S = R \intersect names
    OBVIOUS
  <2>2. S \in SUBSET names /\ x \in S
    BY <1>1, <1>9, <2>1
  <2>3. \A r \in S : Parents(P, r) \subseteq S
    BY <1>5, <1>9, <2>1 DEF ClosedRoles
  <2>4. S \in C
    BY <1>2, <2>2, <2>3
  <2> QED BY <1>4, <2>1, <2>4
<1> QED BY <1>3, <1>6, <1>8, <1>9

LEMMA StandingIs ==
  ASSUME NEW P, NEW R, NEW r, NEW e
  PROVE  e \in Standing(P, R, r) <=> \E p \in R : \E i : e = <<p, i>> /\ Lists(P, p, i, r)
BY DEF Standing, Lists

\* A role counts when what it reaches is a tree.
LEMMA IsTreeIs ==
  ASSUME NEW P, NEW x
  PROVE  /\ IsTree(P, x) <=> TreeFrom(P, x, Reached(P, x))
         /\ \A D : TreeFrom(P, x, D) => D = Reached(P, x)
<1>1. PICK Z : Z = Reached(P, x)
  OBVIOUS
<1>2. x \in Z /\ ClosedRoles(P, Z) /\ \A R : x \in R /\ ClosedRoles(P, R) => Z \subseteq R
  BY <1>1, ReachedIsLeast
<1>3. ASSUME NEW D, TreeFrom(P, x, D)
      PROVE  D = Z
  BY <1>2, <1>3 DEF TreeFrom
<1>4. ASSUME TreeFrom(P, x, Z)
      PROVE  IsTree(P, x)
  <2>1. Standing(P, Z, x) = {}
    <3>1. \A e : e \notin Standing(P, Z, x)
      BY <1>4, StandingIs DEF TreeFrom
    <3> QED BY <3>1
  <2>2. ASSUME NEW r \in Z, r # x
        PROVE  \E e \in Standing(P, Z, r) : Standing(P, Z, r) = {e}
    <3>1. PICK p \in Z : \E i : Lists(P, p, i, r)
      BY <1>4, <2>2, TreeEnters
    <3>2. PICK i : Lists(P, p, i, r)
      BY <3>1
    <3>3. PICK e : e = <<p, i>>
      OBVIOUS
    <3>4. e \in Standing(P, Z, r)
      BY <3>2, <3>3, StandingIs
    <3>5. ASSUME NEW f \in Standing(P, Z, r)
          PROVE  f = e
      <4>1. PICK q \in Z : \E j : f = <<q, j>> /\ Lists(P, q, j, r)
        BY StandingIs
      <4>2. PICK j : f = <<q, j>> /\ Lists(P, q, j, r)
        BY <4>1
      <4>3. q = p /\ j = i
        BY <1>4, <3>2, <4>2 DEF TreeFrom
      <4> QED BY <3>3, <4>2, <4>3
    <3> QED BY <3>4, <3>5
  <2>3. Z \subseteq DOMAIN P.roles
    BY <1>4 DEF TreeFrom
  <2> QED BY <1>1, <2>1, <2>2, <2>3 DEF IsTree
<1>5. ASSUME IsTree(P, x)
      PROVE  TreeFrom(P, x, Z)
  <2>1. /\ Z \subseteq DOMAIN P.roles /\ Standing(P, Z, x) = {}
        /\ \A r \in Z : r # x => \E e \in Standing(P, Z, r) : Standing(P, Z, r) = {e}
    BY <1>1, <1>2, <1>5 DEF IsTree
  <2>2. \A p \in Z : \A i : ~Lists(P, p, i, x)
    BY <2>1, StandingIs
  <2>3. ASSUME NEW p \in Z, NEW q \in Z, NEW i, NEW j, NEW r, Lists(P, p, i, r), Lists(P, q, j, r)
        PROVE  p = q /\ i = j
    <3>1. r \in Z
      BY <1>2, <2>1, <2>3, ListsParent DEF ClosedRoles
    <3>2. r # x
      BY <2>2, <2>3
    <3>3. PICK e : Standing(P, Z, r) = {e}
      BY <2>1, <3>1, <3>2
    <3>4. PICK a : a = <<p, i>>
      OBVIOUS
    <3>5. PICK b : b = <<q, j>>
      OBVIOUS
    <3>6. a \in Standing(P, Z, r) /\ b \in Standing(P, Z, r)
      BY <2>3, <3>4, <3>5, StandingIs
    <3>7. a = b
      BY <3>3, <3>6
    <3> QED BY <3>4, <3>5, <3>7
  <2> QED BY <1>2, <2>1, <2>2, <2>3 DEF TreeFrom
<1> QED BY <1>1, <1>3, <1>4, <1>5

\* So resolve_role_permissions succeeds for the roles that count, with the permissions of all they reach.
LEMMA ResolveIsExact ==
  ASSUME NEW P, RolesOK(P), NEW x \in DOMAIN P.roles
  PROVE  /\ Resolve(P, x).ok <=> IsTree(P, x)
         /\ IsTree(P, x) => Resolve(P, x).perms = PermissionsOf(P, Reached(P, x))
<1>1. PICK r : r = Resolve(P, x)
  OBVIOUS
<1>2. PICK Z : Z = Reached(P, x)
  OBVIOUS
<1>3. r.ok \in BOOLEAN /\ (r.ok => \E D : TreeFrom(P, x, D) /\ r.perms = PermissionsOf(P, D))
      /\ \A D : TreeFrom(P, x, D) => r.ok
  BY <1>1, ResolveFindsTree
<1>4. (IsTree(P, x) <=> TreeFrom(P, x, Z)) /\ \A D : TreeFrom(P, x, D) => D = Z
  BY <1>2, IsTreeIs
<1>5. r.ok => TreeFrom(P, x, Z) /\ r.perms = PermissionsOf(P, Z)
  BY <1>3, <1>4
<1>6. TreeFrom(P, x, Z) => r.ok
  BY <1>3
<1> QED BY <1>1, <1>2, <1>4, <1>5, <1>6, <1>3

\* A policy's parts; what set_policy, add_binding and the parser make of one.
IsPolicy(p) == p = [roles |-> p.roles, bindings |-> p.bindings]

\* The roles cached are those that count in the policy, each with the permissions of all it reaches.
RoleCacheFits(e) ==
  /\ \A n : n \in DOMAIN e.roleCache <=> n \in DOMAIN e.policy.roles /\ IsTree(e.policy, n)
  /\ \A n \in DOMAIN e.roleCache : e.roleCache[n] = PermissionsOf(e.policy, Reached(e.policy, n))

EngineFits(e) == IsEngine(e) /\ IsPolicy(e.policy) /\ RoleCacheFits(e)

\* Only the roles matter for what is reached.
LEMMA ReachedOfRoles ==
  ASSUME NEW P, NEW Q, P.roles = Q.roles, NEW x
  PROVE  Reached(P, x) = Reached(Q, x) /\ (IsTree(P, x) <=> IsTree(Q, x))
<1>1. \A r : Parents(P, r) = Parents(Q, r)
  BY DEF Parents
<1>2. \A R : ClosedRoles(P, R) <=> ClosedRoles(Q, R)
  BY <1>1 DEF ClosedRoles
<1>3. PICK Y : Y = Reached(P, x)
  OBVIOUS
<1>4. PICK Z : Z = Reached(Q, x)
  OBVIOUS
<1>5. x \in Y /\ ClosedRoles(P, Y) /\ \A R : x \in R /\ ClosedRoles(P, R) => Y \subseteq R
  BY <1>3, ReachedIsLeast
<1>6. x \in Z /\ ClosedRoles(Q, Z) /\ \A R : x \in R /\ ClosedRoles(Q, R) => Z \subseteq R
  BY <1>4, ReachedIsLeast
<1>7. Y = Z
  BY <1>2, <1>5, <1>6
<1>8. \A p, i, r : Lists(P, p, i, r) <=> Lists(Q, p, i, r)
  BY DEF Lists
<1>9. TreeFrom(P, x, Y) <=> TreeFrom(Q, x, Y)
  BY <1>2, <1>8 DEF TreeFrom
<1>10. (IsTree(P, x) <=> TreeFrom(P, x, Y)) /\ (IsTree(Q, x) <=> TreeFrom(Q, x, Y))
  BY <1>3, <1>4, <1>7, IsTreeIs
<1> QED BY <1>3, <1>4, <1>7, <1>9, <1>10

LEMMA SetPolicyFits ==
  ASSUME NEW P, IsPolicy(P), RolesOK(P)
  PROVE  EngineFits(SetPolicy(P))
<1>1. PICK e : e = SetPolicy(P)
  OBVIOUS
<1>2. PICK S : S = {n \in DOMAIN P.roles : Resolve(P, n).ok}
  OBVIOUS
<1>3. PICK f : f = [n \in S |-> Resolve(P, n).perms]
  OBVIOUS
<1>4. e = [policy |-> P, roleCache |-> f, agentCache |-> <<>>]
  BY <1>1, <1>2, <1>3 DEF SetPolicy
<1>5. IsEngine(e) /\ e.policy = P /\ e.roleCache = f
  BY <1>4 DEF IsEngine
<1>6. \A n : n \in S <=> n \in DOMAIN P.roles /\ IsTree(P, n)
  BY <1>2, ResolveIsExact
<1>7. \A n \in S : Resolve(P, n).perms = PermissionsOf(P, Reached(P, n))
  BY <1>6, ResolveIsExact
<1>8. DOMAIN f = S /\ \A n \in S : f[n] = PermissionsOf(P, Reached(P, n))
  BY <1>3, <1>7
<1>9. RoleCacheFits(e)
  BY <1>5, <1>6, <1>8 DEF RoleCacheFits
<1> QED BY <1>1, <1>5, <1>9 DEF EngineFits

LEMMA AddBindingFits ==
  ASSUME NEW e, EngineFits(e), NEW b
  PROVE  EngineFits(AddBinding(e, b))
<1>1. PICK P : P = [e.policy EXCEPT !.bindings = Append(@, b)]
  OBVIOUS
<1>2. PICK d : d = AddBinding(e, b)
  OBVIOUS
<1>3. d = [policy |-> P, roleCache |-> e.roleCache, agentCache |-> <<>>]
  BY <1>1, <1>2 DEF AddBinding
<1>4. IsEngine(d) /\ d.policy = P /\ d.roleCache = e.roleCache
  BY <1>3 DEF IsEngine
<1>5. P = [roles |-> e.policy.roles, bindings |-> Append(e.policy.bindings, b)]
  BY <1>1 DEF EngineFits, IsPolicy
<1>6. IsPolicy(P) /\ P.roles = e.policy.roles
  BY <1>5 DEF IsPolicy
<1>7. \A n : Reached(P, n) = Reached(e.policy, n) /\ (IsTree(P, n) <=> IsTree(e.policy, n))
  BY <1>6, ReachedOfRoles
<1>8. \A D : PermissionsOf(P, D) = PermissionsOf(e.policy, D)
  BY <1>6 DEF PermissionsOf
<1>9. RoleCacheFits(d)
  BY <1>4, <1>6, <1>7, <1>8 DEF RoleCacheFits, EngineFits
<1> QED BY <1>2, <1>4, <1>6, <1>9 DEF EngineFits

LEMMA CachedFits ==
  ASSUME NEW e, EngineFits(e), NEW a
  PROVE  EngineFits(Cached(e, a))
<1>1. PICK d : d = Cached(e, a)
  OBVIOUS
<1>2. IsEngine(d) /\ d.policy = e.policy /\ d.roleCache = e.roleCache
  BY <1>1 DEF EngineFits, IsEngine, Cached
<1> QED BY <1>1, <1>2 DEF EngineFits, RoleCacheFits

\* The roles of the default engine inherit from none.
Plain(e) ==
  /\ IsEngine(e) /\ IsPolicy(e.policy) /\ DOMAIN e.roleCache = DOMAIN e.policy.roles
  /\ \A n \in DOMAIN e.policy.roles :
       e.policy.roles[n].inherits = <<>> /\ e.roleCache[n] = e.policy.roles[n].permissions

LEMMA AddBuiltinRolePlain ==
  ASSUME NEW e, Plain(e), NEW name, NEW perms
  PROVE  Plain(AddBuiltinRole(e, name, perms))
<1>1. PICK role : role = [NewRole EXCEPT !.permissions = perms]
  OBVIOUS
<1>2. role.inherits = <<>> /\ role.permissions = perms
  BY <1>1 DEF NewRole
<1>3. PICK P : P = AddRole(e.policy, name, role)
  OBVIOUS
<1>4. PICK d : d = AddBuiltinRole(e, name, perms)
  OBVIOUS
<1>5. d = [policy |-> P, roleCache |-> With(e.roleCache, name, perms), agentCache |-> e.agentCache]
  BY <1>1, <1>3, <1>4 DEF AddBuiltinRole
<1>6. P = [roles |-> With(e.policy.roles, name, role), bindings |-> e.policy.bindings]
  BY <1>3 DEF AddRole, Plain, IsPolicy
<1>7. PICK c : c = With(e.roleCache, name, perms)
  OBVIOUS
<1>8. PICK roles : roles = With(e.policy.roles, name, role)
  OBVIOUS
<1>9. IsEngine(d) /\ IsPolicy(d.policy) /\ d.policy.roles = roles /\ d.roleCache = c
  BY <1>5, <1>6, <1>7, <1>8 DEF IsEngine, IsPolicy
<1>10. DOMAIN c = DOMAIN roles
  BY <1>7, <1>8 DEF With, Plain
<1>11. \A n \in DOMAIN roles : roles[n].inherits = <<>> /\ c[n] = roles[n].permissions
  BY <1>2, <1>7, <1>8 DEF With, Plain
<1> QED BY <1>4, <1>9, <1>10, <1>11 DEF Plain

LEMMA PlainFits ==
  ASSUME NEW e, Plain(e)
  PROVE  EngineFits(e)
<1>1. PICK P : P = e.policy
  OBVIOUS
<1>2. ASSUME NEW n \in DOMAIN P.roles
      PROVE  IsTree(P, n) /\ PermissionsOf(P, Reached(P, n)) = e.roleCache[n]
  <2>1. P.roles[n].inherits = <<>> /\ e.roleCache[n] = P.roles[n].permissions
    BY <1>1 DEF Plain
  <2>2. \A i, r : ~Lists(P, n, i, r)
    BY <2>1 DEF Lists
  <2>3. \A r \in Parents(P, n) : FALSE
    BY <2>2, ParentIsListed
  <2>4. ClosedRoles(P, {n})
    BY <2>3 DEF ClosedRoles
  <2>5. TreeFrom(P, n, {n})
    BY <2>2, <2>4 DEF TreeFrom
  <2>6. Reached(P, n) = {n} /\ IsTree(P, n)
    BY <2>5, IsTreeIs
  <2>7. PermissionsOf(P, {n}) = P.roles[n].permissions
    BY DEF PermissionsOf
  <2> QED BY <2>1, <2>6, <2>7
<1>3. RoleCacheFits(e)
  BY <1>1, <1>2 DEF RoleCacheFits, Plain
<1> QED BY <1>3 DEF EngineFits, Plain

LEMMA DefaultsFit == EngineFits(NewEngine) /\ EngineFits(WithDefaults)
<1>1. Plain(NewEngine)
  BY DEF Plain, NewEngine, EmptyPolicy, IsEngine, IsPolicy
<1>2. EngineFits(NewEngine)
  BY <1>1, PlainFits
<1>3. EngineFits(WithDefaults)
  BY <1>1, AddBuiltinRolePlain, PlainFits, AddBindingFits, Zenon DEF WithDefaults
<1> QED BY <1>2, <1>3

\* The parser of a policy file goes along the lines.
Parsings(h, st, lines, D) ==
  h = [p \in D |-> IF p = {} THEN st ELSE ParseLine(h[p \ {Max(p)}], lines[Max(p)])]

AllParsed(st, lines) == FoldLeft(ParseLine, st, lines)

LEMMA AllParsedIs ==
  ASSUME NEW st, NEW lines
  PROVE  AllParsed(st, lines) = (CHOOSE h : Parsings(h, st, lines, SUBSET DOMAIN lines))[DOMAIN lines]
BY DEF AllParsed, FoldLeft, MapThenFoldSet, Parsings

LEMMA ParsingsExist ==
  ASSUME NEW st, NEW lines, NEW n \in Nat
  PROVE  \E h : Parsings(h, st, lines, SUBSET (1 .. n))
<1> DEFINE Good == {k \in Nat : \E h : Parsings(h, st, lines, SUBSET (1 .. k))}
<1>1. 0 \in Good
  <2>1. \A p \in SUBSET (1 .. 0) : p = {}
    OBVIOUS
  <2>2. Parsings([p \in SUBSET (1 .. 0) |-> st], st, lines, SUBSET (1 .. 0))
    BY <2>1 DEF Parsings
  <2> QED BY <2>2
<1>2. ASSUME NEW k \in Nat, k \in Good
      PROVE  k + 1 \in Good
  <2>1. PICK f : Parsings(f, st, lines, SUBSET (1 .. k))
    BY <1>2
  <2>2. PICK h : h = [p \in SUBSET (1 .. k + 1) |->
                        IF k + 1 \in p THEN ParseLine(f[p \ {k + 1}], lines[k + 1]) ELSE f[p]]
    OBVIOUS
  <2>3. ASSUME NEW p \in SUBSET (1 .. k + 1)
        PROVE  h[p] = IF p = {} THEN st ELSE ParseLine(h[p \ {Max(p)}], lines[Max(p)])
    <3>1. CASE k + 1 \in p
      <4>1. Max(p) = k + 1 /\ p # {}
        BY <3>1, MaxOfUpTo
      <4>2. p \ {k + 1} \in SUBSET (1 .. k) /\ p \ {k + 1} \in SUBSET (1 .. k + 1)
        OBVIOUS
      <4>3. h[p \ {k + 1}] = f[p \ {k + 1}]
        BY <2>2, <4>2
      <4>4. h[p] = ParseLine(f[p \ {k + 1}], lines[k + 1])
        BY <2>2, <3>1
      <4> QED BY <4>1, <4>3, <4>4
    <3>2. CASE k + 1 \notin p
      <4>1. p \in SUBSET (1 .. k)
        BY <3>2
      <4>2. f[p] = IF p = {} THEN st ELSE ParseLine(f[p \ {Max(p)}], lines[Max(p)])
        BY <2>1, <4>1 DEF Parsings
      <4>3. h[p] = f[p]
        BY <2>2, <3>2
      <4>4. p # {} => h[p \ {Max(p)}] = f[p \ {Max(p)}]
        BY <2>2, <3>2
      <4> QED BY <4>2, <4>3, <4>4
    <3> QED BY <3>1, <3>2
  <2>4. Parsings(h, st, lines, SUBSET (1 .. k + 1))
    <3>1. h = [p \in SUBSET (1 .. k + 1) |-> h[p]]
      BY <2>2
    <3>2. [p \in SUBSET (1 .. k + 1) |-> h[p]]
            = [p \in SUBSET (1 .. k + 1) |->
                 IF p = {} THEN st ELSE ParseLine(h[p \ {Max(p)}], lines[Max(p)])]
      BY <2>3
    <3> QED BY <3>1, <3>2 DEF Parsings
  <2> QED BY <2>4
<1>3. Nat \subseteq Good
  <2> HIDE DEF Good
  <2> QED BY <1>1, <1>2, NatSetInduction
<1> QED BY <1>3

IsRole(role) ==
  /\ role = [permissions |-> role.permissions, inherits |-> role.inherits]
  /\ role.inherits \in Seq(Range(role.inherits))

\* What the parser holds: a policy so far, and the role it reads.
ParseFits(st) ==
  /\ st = [section |-> st.section, role |-> st.role, binding |-> st.binding, policy |-> st.policy]
  /\ IsPolicy(st.policy) /\ RolesOK(st.policy)
  /\ st.role = <<>> \/ \E name, role : st.role = <<name, role>> /\ IsRole(role)

LEMMA SavedRoleFits ==
  ASSUME NEW st, ParseFits(st)
  PROVE  ParseFits(SavedRole(st)) /\ SavedRole(st).role = <<>>
<1>1. CASE st.role = <<>>
  BY <1>1 DEF SavedRole
<1>2. CASE st.role # <<>>
  <2>1. PICK name, role : st.role = <<name, role>> /\ IsRole(role)
    BY <1>2 DEF ParseFits
  <2>2. st.role[1] = name /\ st.role[2] = role
    BY <2>1
  <2>3. PICK P : P = AddRole(st.policy, name, role)
    OBVIOUS
  <2>4. P = [roles |-> With(st.policy.roles, name, role), bindings |-> st.policy.bindings]
    BY <2>3 DEF AddRole, ParseFits, IsPolicy
  <2>5. SavedRole(st) = [section |-> st.section, role |-> <<>>, binding |-> st.binding, policy |-> P]
    BY <1>2, <2>2, <2>3 DEF SavedRole, ParseFits
  <2>6. PICK roles : roles = With(st.policy.roles, name, role)
    OBVIOUS
  <2>7. DOMAIN roles = DOMAIN st.policy.roles \union {name}
        /\ \A n \in DOMAIN roles : roles[n] = role \/ (n \in DOMAIN st.policy.roles /\ roles[n] = st.policy.roles[n])
    BY <2>6 DEF With
  <2>8. IsFiniteSet(DOMAIN roles)
    BY <2>7, FS_AddElement DEF ParseFits, RolesOK
  <2>9. IsPolicy(P) /\ P.roles = roles
    BY <2>4, <2>6 DEF IsPolicy
  <2>10. \A n \in DOMAIN roles : roles[n].inherits \in Seq(Range(roles[n].inherits))
    BY <2>1, <2>7 DEF ParseFits, RolesOK, IsRole
  <2>11. RolesOK(P)
    BY <2>8, <2>9, <2>10 DEF RolesOK
  <2> QED BY <2>5, <2>9, <2>11 DEF ParseFits
<1> QED BY <1>1, <1>2

LEMMA SavedBindingFits ==
  ASSUME NEW st, ParseFits(st)
  PROVE  ParseFits(SavedBinding(st)) /\ SavedBinding(st).role = st.role
<1>1. CASE st.binding = <<>>
  BY <1>1 DEF SavedBinding
<1>2. CASE st.binding # <<>>
  <2>1. PICK P : P = [roles |-> st.policy.roles, bindings |-> st.policy.bindings \o st.binding]
    OBVIOUS
  <2>2. SavedBinding(st) = [section |-> st.section, role |-> st.role, binding |-> <<>>, policy |-> P]
    BY <1>2, <2>1 DEF SavedBinding, ParseFits, IsPolicy
  <2>3. IsPolicy(P) /\ P.roles = st.policy.roles
    BY <2>1 DEF IsPolicy
  <2>4. RolesOK(P)
    BY <2>3 DEF ParseFits, RolesOK
  <2> QED BY <2>2, <2>3, <2>4 DEF ParseFits
<1> QED BY <1>1, <1>2

LEMMA ParseLineFits ==
  ASSUME NEW st, ParseFits(st), NEW line, line.kind = "pair" => line.value \in Seq(Range(line.value))
  PROVE  ParseFits(ParseLine(st, line))
<1>1. PICK new : new = ParseLine(st, line)
  OBVIOUS
<1>2. CASE line.kind = "section"
  <2>1. PICK old : old = IF line.name = "policy" THEN st ELSE SavedRole(st)
    OBVIOUS
  <2>2. ParseFits(old)
    BY <2>1, SavedRoleFits
  <2>3. new = [old EXCEPT !.section = line.name]
    BY <1>1, <1>2, <2>1 DEF ParseLine
  <2>4. new = [section |-> line.name, role |-> old.role, binding |-> old.binding, policy |-> old.policy]
    BY <2>2, <2>3 DEF ParseFits
  <2> QED BY <1>1, <2>2, <2>4 DEF ParseFits
<1>3. CASE line.kind = "open" /\ st.section = "roles"
  <2>1. PICK old : old = SavedRole(st)
    OBVIOUS
  <2>2. ParseFits(old)
    BY <2>1, SavedRoleFits
  <2>3. new = [old EXCEPT !.role = <<line.name, NewRole>>]
    BY <1>1, <1>3, <2>1 DEF ParseLine
  <2>4. new = [section |-> old.section, role |-> <<line.name, NewRole>>, binding |-> old.binding, policy |-> old.policy]
    BY <2>2, <2>3 DEF ParseFits
  <2>5. IsRole(NewRole)
    BY DEF IsRole, NewRole
  <2> QED BY <1>1, <2>2, <2>4, <2>5 DEF ParseFits
<1>4. CASE line.kind = "pair" /\ st.section = "roles" /\ line.key = "inherits" /\ st.role # <<>>
  <2>1. PICK name, role : st.role = <<name, role>> /\ IsRole(role)
    BY <1>4 DEF ParseFits
  <2>2. PICK more : more = [permissions |-> role.permissions, inherits |-> line.value]
    OBVIOUS
  <2>3. IsRole(more)
    BY <1>4, <2>2 DEF IsRole
  <2>4. new = [st EXCEPT !.role[2].inherits = line.value]
    BY <1>1, <1>4 DEF ParseLine
  <2>5. new = [section |-> st.section, role |-> [st.role EXCEPT ![2].inherits = line.value],
               binding |-> st.binding, policy |-> st.policy]
    BY <2>4 DEF ParseFits
  <2>6. [st.role EXCEPT ![2].inherits = line.value] = <<name, more>>
    <3>1. [role EXCEPT !.inherits = line.value] = more
      BY <2>1, <2>2 DEF IsRole
    <3>2. PICK pair : pair = st.role
      OBVIOUS
    <3>3. [pair EXCEPT ![2].inherits = line.value] = [pair EXCEPT ![2] = more]
      <4>1. pair[2] = role
        BY <2>1, <3>2
      <4>2. [pair[2] EXCEPT !.inherits = line.value] = more
        BY <3>1, <4>1
      <4> QED BY <4>2
    <3>4. [pair EXCEPT ![2] = more] = <<name, more>>
      BY <2>1, <3>2
    <3> QED BY <3>2, <3>3, <3>4
  <2>7. \E n, r : new.role = <<n, r>> /\ IsRole(r)
    BY <2>3, <2>5, <2>6
  <2> QED BY <1>1, <2>5, <2>7 DEF ParseFits
<1>5. CASE line.kind = "agent" /\ st.section = "bindings"
  <2>1. PICK old : old = SavedBinding(st)
    OBVIOUS
  <2>2. ParseFits(old)
    BY <2>1, SavedBindingFits
  <2>3. PICK b : b = <<[agent |-> line.pattern, roles |-> <<>>]>>
    OBVIOUS
  <2>4. new = [old EXCEPT !.binding = b]
    BY <1>1, <1>5, <2>1, <2>3 DEF ParseLine
  <2>5. new = [section |-> old.section, role |-> old.role, binding |-> b, policy |-> old.policy]
    BY <2>2, <2>4 DEF ParseFits
  <2> QED BY <1>1, <2>2, <2>5 DEF ParseFits
<1>6. CASE line.kind = "pair" /\ st.section = "bindings" /\ line.key = "roles" /\ st.binding # <<>>
  <2>1. new = [st EXCEPT !.binding[1].roles = line.value]
    BY <1>1, <1>6 DEF ParseLine
  <2>2. PICK b : b = [st.binding EXCEPT ![1].roles = line.value]
    OBVIOUS
  <2>3. new = [section |-> st.section, role |-> st.role, binding |-> b, policy |-> st.policy]
    BY <2>1, <2>2 DEF ParseFits
  <2> QED BY <1>1, <2>3 DEF ParseFits
<1>7. CASE new = st
  BY <1>1, <1>7
<1>8. \/ line.kind = "section"
      \/ line.kind = "open" /\ st.section = "roles"
      \/ line.kind = "pair" /\ st.section = "roles" /\ line.key = "inherits" /\ st.role # <<>>
      \/ line.kind = "agent" /\ st.section = "bindings"
      \/ line.kind = "pair" /\ st.section = "bindings" /\ line.key = "roles" /\ st.binding # <<>>
      \/ new = st
  BY <1>1, Zenon DEF ParseLine
<1> QED BY <1>2, <1>3, <1>4, <1>5, <1>6, <1>7, <1>8

\* So a policy file gives a policy.
LEMMA FromYamlFits ==
  ASSUME NEW lines, lines \in Seq(Range(lines)),
         \A line \in Range(lines) : line.kind = "pair" => line.value \in Seq(Range(line.value))
  PROVE  IsPolicy(FromYaml(lines)) /\ RolesOK(FromYaml(lines))
<1>1. PICK n \in Nat : n = Len(lines) /\ DOMAIN lines = 1 .. n
  OBVIOUS
<1>2. PICK st : st = [section |-> "", role |-> <<>>, binding |-> <<>>, policy |-> EmptyPolicy]
  OBVIOUS
<1>3. PICK h : h = CHOOSE f : Parsings(f, st, lines, SUBSET (1 .. n))
  OBVIOUS
<1>4. Parsings(h, st, lines, SUBSET (1 .. n))
  BY <1>3, ParsingsExist
<1>5. AllParsed(st, lines) = h[1 .. n]
  BY <1>1, <1>3, AllParsedIs
<1>6. ParseFits(st)
  <2>1. EmptyPolicy = [roles |-> <<>>, bindings |-> <<>>]
    BY DEF EmptyPolicy
  <2>2. DOMAIN <<>> = {}
    OBVIOUS
  <2>3. IsPolicy(EmptyPolicy) /\ RolesOK(EmptyPolicy)
    BY <2>1, <2>2, FS_EmptySet DEF IsPolicy, RolesOK
  <2> QED BY <1>2, <2>3 DEF ParseFits
<1> DEFINE Good == {k \in Nat : k <= n => ParseFits(h[1 .. k])}
<1>7. 0 \in Good
  <2>1. 1 .. 0 = {} /\ {} \in SUBSET (1 .. n)
    OBVIOUS
  <2>2. h[{}] = st
    BY <1>4, <2>1 DEF Parsings
  <2> QED BY <1>6, <2>1, <2>2
<1>8. ASSUME NEW k \in Nat, k \in Good
      PROVE  k + 1 \in Good
  <2> SUFFICES ASSUME k + 1 <= n PROVE ParseFits(h[1 .. k + 1])
    OBVIOUS
  <2>1. /\ k + 1 \in 1 .. n /\ (k + 1) - 1 = k
        /\ 1 .. k + 1 \in SUBSET (1 .. n) /\ 1 .. k + 1 # {}
        /\ (1 .. k + 1) \ {k + 1} = 1 .. (k + 1) - 1 /\ Max(1 .. k + 1) = k + 1
    BY UpTo
  <2>2. PICK p : p = 1 .. k + 1
    OBVIOUS
  <2>3. p \in SUBSET (1 .. n) /\ p # {}
    BY <2>1, <2>2
  <2>4. h[p] = ParseLine(h[p \ {Max(p)}], lines[Max(p)])
    BY ONLY <1>4, <2>3 DEF Parsings
  <2>5. p \ {Max(p)} = 1 .. k /\ Max(p) = k + 1
    BY <2>1, <2>2
  <2>6. h[p] = ParseLine(h[1 .. k], lines[k + 1])
    BY <2>4, <2>5
  <2>7. PICK line \in Range(lines) : line = lines[k + 1]
    BY <1>1, <2>1 DEF Range
  <2>8. ParseFits(h[1 .. k])
    BY <1>8
  <2> QED BY <2>2, <2>6, <2>7, <2>8, ParseLineFits
<1>9. ParseFits(h[1 .. n])
  <2>1. n \in Good
    <3> HIDE DEF Good
    <3> QED BY <1>7, <1>8, NatSetInduction
  <2> QED BY <2>1
<1>10. FromYaml(lines) = SavedBinding(SavedRole(AllParsed(st, lines))).policy
  BY <1>2 DEF FromYaml, AllParsed
<1>11. ParseFits(SavedBinding(SavedRole(AllParsed(st, lines))))
  BY <1>5, <1>9, SavedRoleFits, SavedBindingFits
<1> QED BY <1>10, <1>11 DEF ParseFits

\* Both caches are exact.
AccessInv == EngineFits(engine) /\ AgentCacheExact

\* What the engine computes for an agent is what the policy allows it.
LEMMA PermissionsAreThePolicys ==
  ASSUME AccessInv, NEW a
  PROVE  AgentPermissions(engine, a) = PolicyAllows(a)
<1>1. AgentPermissions(engine, a) = BoundPermissions(engine, a)
  BY DEF AccessInv, AgentCacheExact, AgentPermissions
<1>2. PICK P : P = engine.policy
  OBVIOUS
<1>3. PICK c : c = engine.roleCache
  OBVIOUS
<1>4. PICK bound : bound = UNION {Range(b.roles) : b \in {b \in Range(P.bindings) : Glob(b.agent, a)}}
  OBVIOUS
<1>5. PICK S : S = {n \in bound : n \in DOMAIN P.roles /\ IsTree(P, n)}
  OBVIOUS
<1>6. DOMAIN c \intersect bound = S
  BY <1>2, <1>3, <1>5 DEF AccessInv, EngineFits, RoleCacheFits
<1>7. \A n \in S : c[n] = UNION {P.roles[r].permissions : r \in Reached(P, n)}
  BY <1>2, <1>3, <1>6 DEF AccessInv, EngineFits, RoleCacheFits, PermissionsOf
<1>8. BoundPermissions(engine, a) = UNION {c[r] : r \in DOMAIN c \intersect bound}
  BY <1>2, <1>3, <1>4 DEF BoundPermissions
<1>9. PolicyAllows(a) = UNION {UNION {P.roles[r].permissions : r \in Reached(P, n)} : n \in S}
  BY <1>2, <1>4, <1>5 DEF PolicyAllows
<1>10. {c[r] : r \in DOMAIN c \intersect bound} = {UNION {P.roles[r].permissions : r \in Reached(P, n)} : n \in S}
  BY <1>6, <1>7
<1> QED BY <1>1, <1>8, <1>9, <1>10

\* Whatever policies were set, read from files or bound to in between, and whatever was cached for a
\* role or an agent before, the engine decides as the policy in force says, with the roles reached
\* from one bound to the agent; and no session handed out is lost before its time (set_policy,
\* add_binding, resolve_role_permissions, get_agent_permissions, cleanup_expired_sessions).
THEOREM AccessSoundHolds == SecuritySpec => []AccessSound
<1>1. SInit => EngineFits(engine)
  BY DefaultsFit DEF SInit
<1>2. EngineFits(engine) /\ [SecurityNext]_svars => EngineFits(engine)'
  <2> SUFFICES ASSUME EngineFits(engine), [SecurityNext]_svars PROVE EngineFits(engine')
    OBVIOUS
  <2>1. CASE LoadPolicy
    <3>1. ASSUME NEW f \in Files, engine' = SetPolicy(FromYaml(f)) PROVE EngineFits(engine')
      <4>1. f \in Seq(Range(f)) /\ \A line \in Range(f) : line.kind = "pair" => line.value \in Seq(Range(line.value))
        BY PoliciesAssumption
      <4>2. IsPolicy(FromYaml(f)) /\ RolesOK(FromYaml(f))
        BY <4>1, FromYamlFits
      <4> QED BY <3>1, <4>2, SetPolicyFits
    <3>2. ASSUME NEW p \in Policies, engine' = SetPolicy(p) PROVE EngineFits(engine')
      <4>1. IsPolicy(p) /\ RolesOK(p)
        BY PoliciesAssumption DEF IsPolicy, RolesOK
      <4> QED BY <3>2, <4>1, SetPolicyFits
    <3> QED BY <2>1, <3>1, <3>2 DEF LoadPolicy
  <2>2. CASE BindRoles
    BY <2>2, AddBindingFits DEF BindRoles
  <2>3. ASSUME NEW s \in issued, Authorize(s) PROVE EngineFits(engine')
    BY <2>3, CachedFits DEF Authorize
  <2>4. CASE LoginNext
    <3>1. engine' = engine
      BY <2>4 DEF LoginNext, RegisterOrRevoke, CleanupExpiredSessions, SecurityTick,
           AuthenticateDisabled, ClearLockout, Authenticate, AuthenticateFails, InvalidateSession
    <3> QED BY <3>1
  <2>5. CASE UNCHANGED svars
    BY <2>5 DEF svars
  <2> QED BY <2>1, <2>2, <2>3, <2>4, <2>5 DEF SecurityNext, PolicyNext
<1>3. EngineFits(engine) /\ AgentCacheExact /\ SessionsHonoured => AccessSound
  <2> SUFFICES ASSUME AccessInv, SessionsHonoured PROVE AccessSound
    BY DEF AccessInv
  <2>1. ASSUME NEW a \in Principals, NEW q \in Queries
        PROVE  CheckPermission(a, q) = Check(PolicyAllows(a), q[1], q[2])
    BY PermissionsAreThePolicys DEF CheckPermission
  <2>2. DecisionsFollowPolicy
    BY <2>1 DEF DecisionsFollowPolicy
  <2> QED BY <2>2 DEF AccessSound
<1>4. SecuritySpec => SInit /\ [][SecurityNext]_svars
  BY DEF SecuritySpec, SecurityNext
<1> QED BY <1>1, <1>2, <1>3, <1>4, AgentCacheTheorem, SessionsTheorem, PTL

-----------------------------------------------------------------------------
(* The web of trust *)

TrustNext == WebNext \/ CacheNext \/ SavesNext

\* Whatever the web went through, a cached validity is the one the present web gives at the time it
\* was calculated: every change of the web forgets the cache (add_identity, set_owner_trust, load).
THEOREM CachedValidityTheorem == TrustSpec => []CachedValidityWasTrue
<1>0. ASSUME cache' = <<>> PROVE CachedValidityWasTrue'
  BY <1>0 DEF CachedValidityWasTrue
<1>1. TInit => CachedValidityWasTrue
  BY DEF TInit, CachedValidityWasTrue
<1>2. CachedValidityWasTrue /\ [TrustNext]_tvars => CachedValidityWasTrue'
  <2> SUFFICES ASSUME CachedValidityWasTrue, [TrustNext]_tvars PROVE CachedValidityWasTrue'
    OBVIOUS
  <2>1. ASSUME UNCHANGED <<web, cache>> PROVE CachedValidityWasTrue'
    BY <2>1 DEF CachedValidityWasTrue
  <2>2. ASSUME NEW ks, cache' = Over(Known(ks), cache), UNCHANGED web PROVE CachedValidityWasTrue'
    <3>1. \A k \in ks : Known(ks)[k].validity = ValidityUncached(web, k, Known(ks)[k].at)
      BY DEF Known, CachedValidityWasTrue
    <3>2. DOMAIN Known(ks) = ks
      BY DEF Known
    <3> QED BY <2>2, <3>1, <3>2 DEF Over, CachedValidityWasTrue
  <2>3. CASE WebNext
    BY <1>0, <2>3 DEF WebNext, Endorse, Revoke, AddIdentity, SetOwnerTrust
  <2>4. CASE CacheNext
    BY <2>1, <2>2, <2>4 DEF CacheNext, GetValidIdentities, DateMoves, CalculateValidity
  <2>5. CASE SavesNext
    BY <1>0, <2>1, <2>5 DEF SavesNext, SaveWebOfTrust, Restart
  <2>6. CASE UNCHANGED tvars
    BY <2>1, <2>6 DEF tvars
  <2> QED BY <2>3, <2>4, <2>5, <2>6 DEF TrustNext
<1>3. TrustSpec => TInit /\ [][TrustNext]_tvars
  BY DEF TrustSpec, TrustNext
<1> QED BY <1>1, <1>2, <1>3, PTL

\* The store has everything of the last complete save, or of the last load, as it was then; only the
\* owner's trust in itself may come from set_self instead.
StoreKeeps ==
  /\ disk.self \in {Nobody, <<Me>>}
  /\ \A k \in DOMAIN saved.identities :
       k \in DOMAIN disk.identities /\ disk.identities[k] = saved.identities[k]
  /\ \A k \in DOMAIN saved.owner :
       IF k \in DOMAIN disk.owner THEN disk.owner[k] = saved.owner[k]
                                  ELSE disk.self = <<k>> /\ saved.owner[k] = "Ultimate"

StoreInv == lives \in Nat /\ StoreKeeps

\* What a web loaded from the store has.
LEMMA LoadedWeb ==
  ASSUME NEW d, d.self \in {Nobody, <<Me>>}
  PROVE  LET w == LoadWebOfTrust(d)
         IN  /\ w.identities = d.identities
             /\ \A k : k \in DOMAIN w.owner <=> k \in DOMAIN d.owner \/ d.self = <<k>>
             /\ \A k \in DOMAIN w.owner : w.owner[k] = IF k \in DOMAIN d.owner THEN d.owner[k] ELSE "Ultimate"
<1>1. CASE d.self = Nobody
  <2>1. DOMAIN EmptyWeb.owner = {}
    BY DEF EmptyWeb
  <2>2. \A k : d.self # <<k>>
    BY <1>1 DEF Nobody
  <2>3. LoadWebOfTrust(d).owner = Over(d.owner, EmptyWeb.owner) /\ LoadWebOfTrust(d).identities = d.identities
    BY <1>1 DEF LoadWebOfTrust
  <2> QED BY <2>1, <2>2, <2>3 DEF Over
<1>2. CASE d.self = <<Me>>
  <2>1. DOMAIN EmptyWeb.owner = {}
    BY DEF EmptyWeb
  <2>2. SetSelf(EmptyWeb, Me).owner = [k \in {Me} |-> "Ultimate"]
    BY <2>1 DEF SetSelf, With
  <2>3. d.self[1] = Me /\ d.self # Nobody /\ \A k : d.self = <<k>> <=> k = Me
    BY <1>2 DEF Nobody
  <2>4. LoadWebOfTrust(d).owner = Over(d.owner, [k \in {Me} |-> "Ultimate"]) /\ LoadWebOfTrust(d).identities = d.identities
    BY <2>2, <2>3 DEF LoadWebOfTrust
  <2> QED BY <2>3, <2>4 DEF Over
<1> QED BY <1>1, <1>2

\* What a process that ends leaves in the store: what was there, or part of a save over it.
LEMMA RestartWrites ==
  ASSUME Restart
  PROVE  /\ lives' = lives + 1 /\ disk'.self = disk.self
         /\ web' = LoadWebOfTrust(disk') /\ saved' = LoadWebOfTrust(disk')
         /\ \/ disk' = disk
            \/ \E ids \in SUBSET DOMAIN web.identities, owners \in SUBSET DOMAIN web.owner :
                 disk' = Written(ids, owners)
<1>1. \/ disk' = disk
      \/ \E ids \in SUBSET DOMAIN web.identities, owners \in SUBSET DOMAIN web.owner :
           disk' = Written(ids, owners)
  BY Zenon DEF Restart
<1>2. \A ids, owners : Written(ids, owners).self = disk.self
  BY DEF Written
<1>3. lives' = lives + 1 /\ web' = LoadWebOfTrust(disk') /\ saved' = LoadWebOfTrust(disk')
  BY Zenon DEF Restart
<1>4. disk'.self = disk.self
  BY <1>1, <1>2, Zenon
<1> QED BY <1>1, <1>3, <1>4, Zenon

\* Every step of the web leaves in the store what a later start needs.
LEMMA StoreStep == StoreInv /\ [TrustNext]_tvars => StoreInv'
<1> SUFFICES ASSUME StoreInv, [TrustNext]_tvars PROVE StoreInv'
  OBVIOUS
<1>1. ASSUME UNCHANGED <<disk, saved>>, lives' = lives PROVE StoreInv'
  BY <1>1 DEF StoreInv, StoreKeeps
<1>2. CASE SaveWebOfTrust
  <2>1. /\ disk'.self = disk.self /\ lives' = lives /\ saved' = web
        /\ disk'.identities = Over([k \in DOMAIN web.identities |-> web.identities[k]], disk.identities)
        /\ disk'.owner = Over([k \in DOMAIN web.owner |-> web.owner[k]], disk.owner)
    BY <1>2 DEF SaveWebOfTrust, Written
  <2> QED BY <2>1 DEF Over, StoreInv, StoreKeeps
<1>3. CASE Restart
  <2>1. lives' = lives + 1 /\ disk'.self = disk.self /\ saved' = LoadWebOfTrust(disk')
    BY <1>3, RestartWrites
  <2>2. disk'.self \in {Nobody, <<Me>>}
    BY <2>1 DEF StoreInv, StoreKeeps
  <2>3. /\ saved'.identities = disk'.identities
        /\ \A k : k \in DOMAIN saved'.owner <=> k \in DOMAIN disk'.owner \/ disk'.self = <<k>>
        /\ \A k \in DOMAIN saved'.owner :
             saved'.owner[k] = IF k \in DOMAIN disk'.owner THEN disk'.owner[k] ELSE "Ultimate"
    BY <2>1, <2>2, LoadedWeb
  <2> QED BY <2>1, <2>2, <2>3 DEF StoreInv, StoreKeeps
<1>4. CASE WebNext
  BY <1>1, <1>4 DEF WebNext, Endorse, Revoke, AddIdentity, SetOwnerTrust
<1>5. CASE CacheNext
  BY <1>1, <1>5 DEF CacheNext, GetValidIdentities, DateMoves, CalculateValidity
<1>6. CASE UNCHANGED tvars
  BY <1>1, <1>6 DEF tvars
<1> QED BY <1>2, <1>3, <1>4, <1>5, <1>6 DEF TrustNext, SavesNext

\* Whatever a save in progress had written when the process ended, what the last complete save or
\* the last load had of identities and owner trust is back, or what the interrupted save wrote over
\* it (save_web_of_trust, load_web_of_trust): the half of WebEvolves that is about the store.
THEOREM SavedWebTheorem == TrustSpec => [][SavedWebSurvives]_tvars
<1>1. TInit => StoreInv
  BY DEF TInit, StoreInv, StoreKeeps, EmptyWeb, SetSelf
<1>2. StoreInv /\ [TrustNext]_tvars => [SavedWebSurvives]_tvars
  <2> SUFFICES ASSUME StoreInv, TrustNext, lives' > lives PROVE SavedWebSurvives
    BY DEF tvars, SavedWebSurvives
  <2>0. lives' # lives
    BY DEF StoreInv
  <2>1. Restart
    <3>1. ~WebNext
      BY <2>0 DEF WebNext, Endorse, Revoke, AddIdentity, SetOwnerTrust
    <3>2. ~CacheNext
      BY <2>0 DEF CacheNext, GetValidIdentities, DateMoves, CalculateValidity
    <3>3. ~SaveWebOfTrust
      BY <2>0 DEF SaveWebOfTrust
    <3> QED BY <3>1, <3>2, <3>3 DEF TrustNext, SavesNext
  <2>2. disk'.self = disk.self /\ disk'.self \in {Nobody, <<Me>>} /\ web' = LoadWebOfTrust(disk')
    BY <2>1, RestartWrites DEF StoreInv, StoreKeeps
  <2>3. /\ web'.identities = disk'.identities
        /\ \A k : k \in DOMAIN web'.owner <=> k \in DOMAIN disk'.owner \/ disk'.self = <<k>>
        /\ \A k \in DOMAIN web'.owner :
             web'.owner[k] = IF k \in DOMAIN disk'.owner THEN disk'.owner[k] ELSE "Ultimate"
    BY <2>2, LoadedWeb
  <2> DEFINE Overwritten ==
        /\ \A k \in DOMAIN disk.identities :
             /\ k \in DOMAIN disk'.identities
             /\ disk'.identities[k] \in {disk.identities[k], Signatures(web, k)}
        /\ \A k \in DOMAIN disk.owner :
             /\ k \in DOMAIN disk'.owner
             /\ disk'.owner[k] \in {disk.owner[k], OwnerTrust(web, k)}
        /\ \A k \in DOMAIN disk'.owner \ DOMAIN disk.owner : disk'.owner[k] = OwnerTrust(web, k)
  <2>4. Overwritten
    <3>1. CASE disk' = disk
      BY <3>1
    <3>2. ASSUME NEW ids \in SUBSET DOMAIN web.identities, NEW owners \in SUBSET DOMAIN web.owner,
                 disk' = Written(ids, owners)
          PROVE  Overwritten
      <4>1. /\ disk'.identities = Over([k \in ids |-> web.identities[k]], disk.identities)
            /\ disk'.owner = Over([k \in owners |-> web.owner[k]], disk.owner)
        BY <3>2 DEF Written
      <4> QED BY <4>1 DEF Over, Signatures, OwnerTrust
    <3> HIDE DEF Overwritten
    <3> QED BY <2>1, <3>1, <3>2, RestartWrites, Zenon
  <2> QED BY <2>2, <2>3, <2>4 DEF StoreInv, StoreKeeps, SavedWebSurvives
<1>3. TrustSpec => TInit /\ [][TrustNext]_tvars
  BY DEF TrustSpec, TrustNext
<1> QED BY <1>1, <1>2, <1>3, StoreStep, PTL

\* The paths one key longer than p.
Longer(w, p, t) ==
  UNION {{<<Append(p[1], k), Append(p[2], s.level)>> :
            s \in {s \in {w.identities[k][i] : i \in ValidEndorsements(w.identities[k], t)} :
                     s.signer = Last(p[1])}} :
         k \in DOMAIN w.identities \ Range(p[1])}

\* A function that gives the paths of each length up to n.
PathsAre(P, w, target, t, n) ==
  P = [i \in 1 .. n |->
         IF i = 1 THEN {<<w.self, <<>>>>}
         ELSE UNION {Longer(w, p, t) : p \in {p \in P[i - 1] : Last(p[1]) # target}}]

\* Those of its paths that end at the target.
EndingAt(P, target) == {p \in UNION {P[n] : n \in 1 .. MaxPathLength + 1} : Last(p[1]) = target}

\* The definition of PathsTo, in these words.
LEMMA PathsUnfold ==
  ASSUME NEW w, NEW target, NEW t, w.self # Nobody
  PROVE  PathsTo(w, target, t)
           = EndingAt(CHOOSE P : PathsAre(P, w, target, t, MaxPathLength + 1), target)
BY DEF PathsTo, PathsAre, Longer, EndingAt

\* There is such a function for every length.
LEMMA PathsExist ==
  ASSUME NEW w, NEW target, NEW t, NEW n \in Nat
  PROVE  \E P : PathsAre(P, w, target, t, n)
<1> DEFINE Good == {k \in Nat : \E P : PathsAre(P, w, target, t, k)}
<1>1. 0 \in Good
  <2>1. 1 .. 0 = {}
    OBVIOUS
  <2>2. PathsAre([i \in 1 .. 0 |-> {}], w, target, t, 0)
    BY <2>1 DEF PathsAre
  <2> QED BY <2>2
<1>2. ASSUME NEW k \in Nat, k \in Good PROVE k + 1 \in Good
  <2>1. PICK P : PathsAre(P, w, target, t, k)
    BY <1>2
  <2> DEFINE Of(Q, i) == IF i = 1 THEN {<<w.self, <<>>>>}
                         ELSE UNION {Longer(w, p, t) : p \in {p \in Q[i - 1] : Last(p[1]) # target}}
  <2>2. PICK Q : Q = [i \in 1 .. k + 1 |-> IF i <= k THEN P[i] ELSE Of(P, i)]
    OBVIOUS
  <2>3. ASSUME NEW i \in 1 .. k + 1
        PROVE  Q[i] = Of(Q, i)
    <3>1. i # 1 => i - 1 \in 1 .. k /\ i - 1 \in 1 .. k + 1 /\ i - 1 <= k
      OBVIOUS
    <3>2. i # 1 => Q[i - 1] = P[i - 1]
      BY <2>2, <3>1
    <3>3. Of(Q, i) = Of(P, i)
      BY <3>2
    <3>4. CASE i <= k
      <4>1. i \in 1 .. k /\ Q[i] = P[i]
        BY <2>2, <3>4
      <4>2. P[i] = Of(P, i)
        BY <2>1, <4>1 DEF PathsAre
      <4> HIDE DEF Of
      <4> QED BY <3>3, <4>1, <4>2
    <3>5. CASE ~(i <= k)
      <4> HIDE DEF Of
      <4> QED BY <2>2, <3>3, <3>5
    <3> QED BY <3>4, <3>5
  <2>4. PathsAre(Q, w, target, t, k + 1)
    <3>1. Q = [i \in 1 .. k + 1 |-> Q[i]]
      BY <2>2
    <3>2. [i \in 1 .. k + 1 |-> Q[i]] = [i \in 1 .. k + 1 |-> Of(Q, i)]
      BY <2>3
    <3> QED BY <3>1, <3>2 DEF PathsAre
  <2> QED BY <2>4
<1>3. Nat \subseteq Good
  <2> HIDE DEF Good
  <2> QED BY <1>1, <1>2, NatSetInduction
<1> QED BY <1>3

\* What PathsTo finds: the paths of some length, of those such a function gives.
LEMMA PathsToIs ==
  ASSUME NEW w, NEW target, NEW t, w.self # Nobody
  PROVE  \E P : /\ PathsAre(P, w, target, t, MaxPathLength + 1)
                /\ PathsTo(w, target, t) = EndingAt(P, target)
<1>1. PICK P : P = CHOOSE Q : PathsAre(Q, w, target, t, MaxPathLength + 1)
  OBVIOUS
<1>2. MaxPathLength + 1 \in Nat
  BY TrustAssumption
<1>3. PathsAre(P, w, target, t, MaxPathLength + 1)
  BY <1>1, <1>2, PathsExist
<1> QED BY <1>1, <1>3, PathsUnfold

\* A web of no more valid endorsements than another, of the same owner with the same trust.
Fewer(v, w, t) ==
  /\ v.self = w.self /\ v.owner = w.owner
  /\ \A k \in DOMAIN v.identities :
       /\ k \in DOMAIN w.identities
       /\ \A i \in ValidEndorsements(v.identities[k], t) :
            /\ i \in ValidEndorsements(w.identities[k], t)
            /\ w.identities[k][i] = v.identities[k][i]

\* It has no more paths.
LEMMA LongerGrow ==
  ASSUME NEW v, NEW w, NEW t, Fewer(v, w, t), NEW p
  PROVE  Longer(v, p, t) \subseteq Longer(w, p, t)
<1> SUFFICES ASSUME NEW q \in Longer(v, p, t) PROVE q \in Longer(w, p, t)
  OBVIOUS
<1>1. PICK k \in DOMAIN v.identities \ Range(p[1]) :
        \E i \in ValidEndorsements(v.identities[k], t) :
          /\ v.identities[k][i].signer = Last(p[1])
          /\ q = <<Append(p[1], k), Append(p[2], v.identities[k][i].level)>>
  BY DEF Longer
<1>2. PICK i \in ValidEndorsements(v.identities[k], t) :
        /\ v.identities[k][i].signer = Last(p[1])
        /\ q = <<Append(p[1], k), Append(p[2], v.identities[k][i].level)>>
  BY <1>1
<1>3. /\ k \in DOMAIN w.identities \ Range(p[1]) /\ i \in ValidEndorsements(w.identities[k], t)
      /\ w.identities[k][i] = v.identities[k][i]
  BY DEF Fewer
<1> QED BY <1>2, <1>3 DEF Longer

\* So it finds no path that the other does not.
LEMMA PathsGrow ==
  ASSUME NEW v, NEW w, NEW t, Fewer(v, w, t), NEW target
  PROVE  PathsTo(v, target, t) \subseteq PathsTo(w, target, t)
<1>1. CASE v.self = Nobody
  BY <1>1 DEF PathsTo
<1>2. CASE v.self # Nobody
  <2>1. w.self = v.self
    BY DEF Fewer
  <2>2. PICK P : /\ PathsAre(P, v, target, t, MaxPathLength + 1)
                 /\ PathsTo(v, target, t) = EndingAt(P, target)
    BY <1>2, PathsToIs
  <2>3. PICK Q : /\ PathsAre(Q, w, target, t, MaxPathLength + 1)
                 /\ PathsTo(w, target, t) = EndingAt(Q, target)
    BY <1>2, <2>1, PathsToIs
  <2>4. PICK longest \in Nat : longest = MaxPathLength + 1
    BY TrustAssumption
  <2> DEFINE Good == {n \in Nat : n \in 1 .. longest => P[n] \subseteq Q[n]}
  <2>5. 0 \in Good
    OBVIOUS
  <2>6. ASSUME NEW n \in Nat, n \in Good PROVE n + 1 \in Good
    <3> SUFFICES ASSUME n + 1 \in 1 .. longest PROVE P[n + 1] \subseteq Q[n + 1]
      OBVIOUS
    <3>1. CASE n = 0
      <4>1. P[1] = {<<v.self, <<>>>>} /\ Q[1] = {<<w.self, <<>>>>}
        BY <2>2, <2>3, <2>4, <3>1 DEF PathsAre
      <4> QED BY <2>1, <3>1, <4>1
    <3>2. CASE n # 0
      <4>1. n \in 1 .. longest /\ n + 1 # 1 /\ (n + 1) - 1 = n
        BY <3>2
      <4>2. /\ P[n + 1] = UNION {Longer(v, p, t) : p \in {p \in P[n] : Last(p[1]) # target}}
            /\ Q[n + 1] = UNION {Longer(w, p, t) : p \in {p \in Q[n] : Last(p[1]) # target}}
        BY <2>2, <2>3, <2>4, <4>1 DEF PathsAre
      <4>3. P[n] \subseteq Q[n]
        BY <2>6, <4>1
      <4>4. \A p : Longer(v, p, t) \subseteq Longer(w, p, t)
        BY LongerGrow
      <4> QED BY <4>2, <4>3, <4>4
    <3> QED BY <3>1, <3>2
  <2>7. Nat \subseteq Good
    <3> HIDE DEF Good
    <3> QED BY <2>5, <2>6, NatSetInduction
  <2>8. \A n \in 1 .. longest : P[n] \subseteq Q[n]
    BY <2>7
  <2> QED BY <2>2, <2>3, <2>4, <2>8 DEF EndingAt
<1> QED BY <1>1, <1>2

\* An endorsement counts for no less.
LEMMA WeightGrows ==
  ASSUME NEW v, NEW w, NEW t, Fewer(v, w, t), NEW s, s.level \in {"Marginal", "Full"}
  PROVE  /\ Weight(v, s, t) = "full" => Weight(w, s, t) = "full"
         /\ Weight(v, s, t) = "marginal" => Weight(w, s, t) \in {"marginal", "full"}
<1> DEFINE byLevel == IF CanIntroduce(s.level) THEN "full"
                      ELSE IF s.level = "Marginal" THEN "marginal" ELSE "none"
           Strong(x, n) == \E p \in PathsTo(x, s.signer, t) : Reaches(p[2], n)
           Introduces(x) == CanIntroduce(OwnerTrust(x, s.signer))
<1>1. byLevel \in {"marginal", "full"}
  BY DEF CanIntroduce
<1>2. Introduces(v) = Introduces(w)
  BY DEF Fewer, OwnerTrust
<1>3. (Strong(v, 8) => Strong(w, 8)) /\ (Strong(v, 4) => Strong(w, 4))
  BY PathsGrow
<1>4. \A x : Weight(x, s, t) = IF Introduces(x) \/ Strong(x, 8) THEN byLevel
                               ELSE IF AllowMarginal /\ Strong(x, 4) THEN "marginal" ELSE "none"
  BY DEF Weight
<1> HIDE DEF byLevel, Strong, Introduces
<1> QED BY <1>1, <1>2, <1>3, <1>4

\* The signatures of the web: an endorsement has one of the levels endorse is called with.
Signed == {s \in [signer : Keys, level : Levels, revokes : BOOLEAN, expires : Nat] :
             ~s.revokes => s.level \in {"Marginal", "Full"}}
SignedWell(w) == \A k \in DOMAIN w.identities : w.identities[k] \in Seq(Signed)

\* The places of the endorsements of k that count for so much.
Counting(w, k, t, kind) ==
  {i \in ValidEndorsements(w.identities[k], t) : Weight(w, w.identities[k][i], t) = kind}

\* There are finitely many.
LEMMA CountingFinite ==
  ASSUME NEW w, SignedWell(w), NEW k \in DOMAIN w.identities, NEW t, NEW kind
  PROVE  /\ IsFiniteSet(Counting(w, k, t, kind)) /\ Cardinality(Counting(w, k, t, kind)) \in Nat
         /\ Cardinality(Counting(w, k, t, kind)) = 0 <=> Counting(w, k, t, kind) = {}
<1>1. PICK n \in Nat : DOMAIN w.identities[k] = 1 .. n
  BY DEF SignedWell
<1>2. IsFiniteSet(1 .. n)
  BY <1>1, FS_Interval
<1>3. Counting(w, k, t, kind) \subseteq 1 .. n
  BY <1>1 DEF Counting, ValidEndorsements
<1>4. IsFiniteSet(Counting(w, k, t, kind))
  BY <1>2, <1>3, FS_Subset
<1> QED BY <1>4, FS_CardinalityType, FS_EmptySet

\* An identity is no less valid in a web of more valid endorsements.
LEMMA ValidityGrows ==
  ASSUME NEW v, NEW w, NEW t, Fewer(v, w, t), SignedWell(v), SignedWell(w), NEW k
  PROVE  Rank[ValidityUncached(v, k, t)] <= Rank[ValidityUncached(w, k, t)]
<1> DEFINE Answers == {"Ultimate", "Revoked", "Unknown", "Full", "Marginal", "Undefined"}
           N(x, kind) == Cardinality(Counting(x, k, t, kind))
           Counted(x) == IF N(x, "full") >= CompletesNeeded THEN "Full"
                         ELSE IF N(x, "marginal") >= MarginalsNeeded \/ N(x, "full") + N(x, "marginal") > 0
                         THEN "Marginal"
                         ELSE "Undefined"
<1>1. \A x : ValidityUncached(x, k, t)
               = IF x.self = <<k>> \/ OwnerTrust(x, k) = "Ultimate" THEN "Ultimate"
                 ELSE IF OwnerTrust(x, k) = "Untrusted" THEN "Revoked"
                 ELSE IF k \notin DOMAIN x.identities THEN "Unknown"
                 ELSE Counted(x)
  BY DEF ValidityUncached, Counting
<1>2. v.self = w.self /\ OwnerTrust(v, k) = OwnerTrust(w, k)
  BY DEF Fewer, OwnerTrust
<1>3. /\ Rank["Ultimate"] = 3 /\ Rank["Full"] = 2 /\ Rank["Marginal"] = 1 /\ Rank["Undefined"] = 0
      /\ Rank["Unknown"] = 0 /\ Rank["Revoked"] = 0
  BY DEF Rank
<1>4. \A x : Counted(x) \in {"Full", "Marginal", "Undefined"}
  OBVIOUS
<1>5. ASSUME k \in DOMAIN v.identities
      PROVE  k \in DOMAIN w.identities /\ Rank[Counted(v)] <= Rank[Counted(w)]
  <2>1. k \in DOMAIN w.identities
    BY <1>5 DEF Fewer
  <2>2. ASSUME NEW i \in ValidEndorsements(v.identities[k], t)
        PROVE  /\ i \in ValidEndorsements(w.identities[k], t)
               /\ w.identities[k][i] = v.identities[k][i]
               /\ v.identities[k][i].level \in {"Marginal", "Full"}
    <3>1. v.identities[k] \in Seq(Signed) /\ i \in DOMAIN v.identities[k] /\ ~v.identities[k][i].revokes
      BY <1>5 DEF SignedWell, ValidEndorsements
    <3>2. v.identities[k][i] \in Signed
      BY <3>1
    <3> QED BY <1>5, <3>1, <3>2 DEF Fewer, Signed
  <2>3. Counting(v, k, t, "full") \subseteq Counting(w, k, t, "full")
    BY <2>2, WeightGrows DEF Counting
  <2>4. Counting(v, k, t, "marginal") \subseteq Counting(w, k, t, "full") \cup Counting(w, k, t, "marginal")
    BY <2>2, WeightGrows DEF Counting
  <2>5. \A kind : /\ N(v, kind) \in Nat /\ (N(v, kind) = 0 <=> Counting(v, k, t, kind) = {})
                  /\ N(w, kind) \in Nat /\ (N(w, kind) = 0 <=> Counting(w, k, t, kind) = {})
    BY <1>5, <2>1, CountingFinite
  <2>6. N(v, "full") <= N(w, "full")
    <3>1. IsFiniteSet(Counting(w, k, t, "full"))
      BY <2>1, CountingFinite
    <3> QED BY <2>3, <3>1, FS_Subset
  <2>7. N(v, "marginal") = 0 \/ N(w, "full") + N(w, "marginal") > 0
    BY <2>4, <2>5
  <2> HIDE DEF N
  <2>8. CompletesNeeded \in Nat /\ MarginalsNeeded \in Nat
    BY TrustAssumption
  <2>9. Counted(v) = "Full" => Counted(w) = "Full"
    BY <2>5, <2>6, <2>8
  <2>10. Counted(v) = "Marginal" => Counted(w) \in {"Full", "Marginal"}
    BY <2>5, <2>6, <2>7, <2>8
  <2> HIDE DEF Counted
  <2> QED BY <1>3, <1>4, <2>1, <2>9, <2>10
<1>6. \A x : ValidityUncached(x, k, t) \in Answers
  BY <1>1, <1>4
<1>7. \A a \in Answers : 0 <= Rank[a] /\ Rank[a] \in Int
  BY <1>3
<1> HIDE DEF Counted, Answers
<1>8. CASE v.self = <<k>> \/ OwnerTrust(v, k) = "Ultimate" \/ OwnerTrust(v, k) = "Untrusted"
  <2>1. ValidityUncached(v, k, t) = ValidityUncached(w, k, t)
    BY <1>1, <1>2, <1>8
  <2> QED BY <1>6, <1>7, <2>1
<1>9. CASE ~(v.self = <<k>> \/ OwnerTrust(v, k) = "Ultimate" \/ OwnerTrust(v, k) = "Untrusted")
  <2>1. CASE k \in DOMAIN v.identities
    <3>1. ValidityUncached(v, k, t) = Counted(v) /\ ValidityUncached(w, k, t) = Counted(w)
      BY <1>1, <1>2, <1>5, <1>9, <2>1
    <3> QED BY <1>5, <2>1, <3>1
  <2>2. CASE k \notin DOMAIN v.identities
    <3>1. ValidityUncached(v, k, t) = "Unknown"
      BY <1>1, <1>9, <2>2
    <3> QED BY <1>3, <1>6, <1>7, <3>1
  <2> QED BY <2>1, <2>2
<1> QED BY <1>8, <1>9

\* A rank is a number.
LEMMA RankType == \A w, k, t : Rank[ValidityUncached(w, k, t)] \in Int
<1>1. /\ Rank["Ultimate"] = 3 /\ Rank["Full"] = 2 /\ Rank["Marginal"] = 1 /\ Rank["Undefined"] = 0
      /\ Rank["Unknown"] = 0 /\ Rank["Revoked"] = 0
  BY DEF Rank
<1>2. \A w, k, t : ValidityUncached(w, k, t)
                     \in {"Ultimate", "Revoked", "Unknown", "Full", "Marginal", "Undefined"}
  BY DEF ValidityUncached
<1> QED BY <1>1, <1>2

\* The store has no identity the web has not, and none with more signatures.
WebInv ==
  /\ web = [self |-> web.self, owner |-> web.owner, identities |-> web.identities]
  /\ disk = [self |-> disk.self, owner |-> disk.owner, identities |-> disk.identities]
  /\ SignedWell(web) /\ SignedWell(disk)
  /\ \A k \in DOMAIN disk.identities :
       k \in DOMAIN web.identities /\ Len(disk.identities[k]) <= Len(web.identities[k])

\* The signatures of a known identity, and of one that is not, are a list.
LEMMA SignaturesType ==
  ASSUME NEW w, SignedWell(w), NEW k
  PROVE  Signatures(w, k) \in Seq(Signed) /\ Len(Signatures(w, k)) \in Nat
<1>1. Signatures(w, k) \in Seq(Signed)
  BY DEF Signatures, SignedWell
<1> QED BY <1>1

\* One signature more for an identity.
SignedMore(k, s) ==
  /\ s \in Signed
  /\ web' = [web EXCEPT !.identities = With(@, k, Append(Signatures(web, k), s))]
  /\ s.revokes => k \in DOMAIN web.identities

\* What that is of the web.
LEMMA MoreIs ==
  ASSUME WebInv, NEW k, NEW s, SignedMore(k, s)
  PROVE  /\ web' = [self |-> web'.self, owner |-> web'.owner, identities |-> web'.identities]
         /\ web'.self = web.self /\ web'.owner = web.owner
         /\ DOMAIN web'.identities = DOMAIN web.identities \cup {k}
         /\ web'.identities[k] = Append(Signatures(web, k), s)
         /\ \A j \in DOMAIN web.identities : j # k => web'.identities[j] = web.identities[j]
         /\ SignedWell(web)'
<1>1. PICK map : map = With(web.identities, k, Append(Signatures(web, k), s))
  OBVIOUS
<1>2. web' = [self |-> web.self, owner |-> web.owner, identities |-> map]
  BY <1>1 DEF SignedMore, WebInv
<1>3. /\ web' = [self |-> web'.self, owner |-> web'.owner, identities |-> web'.identities]
      /\ web'.self = web.self /\ web'.owner = web.owner /\ web'.identities = map
  BY <1>2
<1>4. /\ DOMAIN map = DOMAIN web.identities \cup {k} /\ map[k] = Append(Signatures(web, k), s)
      /\ \A j \in DOMAIN web.identities : j # k => map[j] = web.identities[j]
  BY <1>1 DEF With
<1>5. Append(Signatures(web, k), s) \in Seq(Signed)
  <2>1. Signatures(web, k) \in Seq(Signed) /\ s \in Signed
    BY SignaturesType DEF WebInv, SignedMore
  <2> QED BY <2>1
<1>6. SignedWell(web)'
  BY <1>3, <1>4, <1>5 DEF SignedWell, WebInv
<1> QED BY <1>3, <1>4, <1>6

\* The places of a list's endorsements with one signature more.
LEMMA EndorsementsOfMore ==
  ASSUME NEW q \in Seq(Signed), NEW s \in Signed, NEW t
  PROVE  /\ ~s.revokes => ValidEndorsements(q, t) \subseteq ValidEndorsements(Append(q, s), t)
         /\ s.revokes => ValidEndorsements(Append(q, s), t) \subseteq ValidEndorsements(q, t)
         /\ \A i \in DOMAIN q : Append(q, s)[i] = q[i]
         /\ ValidEndorsements(q, t) \subseteq DOMAIN q
<1>1. PICK n \in Nat : n = Len(q)
  OBVIOUS
<1>2. PICK r : r = Append(q, s)
  OBVIOUS
<1>3. /\ DOMAIN q = 1 .. n /\ DOMAIN r = 1 .. n + 1 /\ r[n + 1] = s /\ n + 1 \in 1 .. n + 1
      /\ \A i \in 1 .. n : r[i] = q[i] /\ i \in 1 .. n + 1
      /\ \A i \in 1 .. n + 1 : i \in 1 .. n \/ i = n + 1
  BY <1>1, <1>2
<1>4. ~s.revokes => ValidEndorsements(q, t) \subseteq ValidEndorsements(r, t)
  BY ONLY <1>3 DEF ValidEndorsements
<1>5. s.revokes => ValidEndorsements(r, t) \subseteq ValidEndorsements(q, t)
  BY ONLY <1>3 DEF ValidEndorsements
<1>6. ValidEndorsements(q, t) \subseteq DOMAIN q
  BY DEF ValidEndorsements
<1> QED BY <1>2, <1>3, <1>4, <1>5, <1>6

\* So the web has more, or with a revocation fewer, valid endorsements.
LEMMA MoreOrFewer ==
  ASSUME WebInv, NEW k, NEW s, SignedMore(k, s), NEW t
  PROVE  /\ ~s.revokes => Fewer(web, web', t)
         /\ s.revokes => Fewer(web', web, t)
<1>1. /\ web'.self = web.self /\ web'.owner = web.owner
      /\ DOMAIN web'.identities = DOMAIN web.identities \cup {k}
      /\ web'.identities[k] = Append(Signatures(web, k), s)
      /\ \A j \in DOMAIN web.identities : j # k => web'.identities[j] = web.identities[j]
  BY MoreIs
<1>2. PICK q : q = Signatures(web, k)
  OBVIOUS
<1>3. q \in Seq(Signed) /\ s \in Signed /\ (k \in DOMAIN web.identities => q = web.identities[k])
  BY <1>2, SignaturesType DEF WebInv, SignedMore, Signatures
<1>4. /\ ~s.revokes => ValidEndorsements(q, t) \subseteq ValidEndorsements(Append(q, s), t)
      /\ s.revokes => ValidEndorsements(Append(q, s), t) \subseteq ValidEndorsements(q, t)
      /\ \A i \in DOMAIN q : Append(q, s)[i] = q[i]
      /\ ValidEndorsements(q, t) \subseteq DOMAIN q
  BY <1>3, EndorsementsOfMore
<1>5. ~s.revokes => Fewer(web, web', t)
  BY <1>1, <1>2, <1>3, <1>4 DEF Fewer
<1>6. s.revokes => Fewer(web', web, t)
  <2> SUFFICES ASSUME s.revokes PROVE Fewer(web', web, t)
    OBVIOUS
  <2>1. k \in DOMAIN web.identities /\ DOMAIN web'.identities = DOMAIN web.identities
    BY <1>1 DEF SignedMore
  <2> QED BY <1>1, <1>2, <1>3, <1>4, <2>1 DEF Fewer
<1> QED BY <1>5, <1>6

\* Which is what EndorsementsOnlyRaise asks of such a step.
LEMMA MoreRaises ==
  ASSUME WebInv, NEW k, NEW s, SignedMore(k, s)
  PROVE  EndorsementsOnlyRaise
<1>1. /\ DOMAIN web'.identities = DOMAIN web.identities \cup {k}
      /\ web'.identities[k] = Append(Signatures(web, k), s)
      /\ \A j \in DOMAIN web.identities : j # k => web'.identities[j] = web.identities[j]
      /\ SignedWell(web) /\ SignedWell(web')
  BY MoreIs DEF WebInv
<1>2. ASSUME NEW j, Len(Signatures(web', j)) > Len(Signatures(web, j))
      PROVE  j = k
  <2> SUFFICES ASSUME j # k PROVE FALSE
    OBVIOUS
  <2>1. Signatures(web', j) = Signatures(web, j)
    BY <1>1 DEF Signatures
  <2>2. Len(Signatures(web, j)) \in Nat
    BY <1>1, SignaturesType
  <2> QED BY <1>2, <2>1, <2>2
<1>3. Last(Signatures(web', k)) = s
  <2>1. Signatures(web', k) = Append(Signatures(web, k), s)
    BY <1>1 DEF Signatures
  <2>2. Signatures(web, k) \in Seq(Signed) /\ s \in Signed
    BY <1>1, SignaturesType DEF SignedMore
  <2>3. PICK q \in Seq(Signed) : q = Signatures(web, k)
    BY <2>2
  <2>4. Last(Append(q, s)) = s
    BY <2>2 DEF Last
  <2> QED BY <2>1, <2>3, <2>4
<1>4. ASSUME NEW j
      PROVE  LET before == Rank[ValidityUncached(web, j, date)]
                 after == Rank[ValidityUncached(web', j, date)]
             IN  IF s.revokes THEN after <= before ELSE after >= before
  <2>1. PICK a : a = Rank[ValidityUncached(web, j, date)]
    OBVIOUS
  <2>2. PICK b : b = Rank[ValidityUncached(web', j, date)]
    OBVIOUS
  <2>3. a \in Int /\ b \in Int
    BY <2>1, <2>2, RankType
  <2>4. CASE s.revokes
    <3>1. Fewer(web', web, date)
      BY <2>4, MoreOrFewer
    <3>2. b <= a
      BY <1>1, <2>1, <2>2, <3>1, ValidityGrows
    <3> QED BY <2>1, <2>2, <2>4, <3>2
  <2>5. CASE ~s.revokes
    <3>1. Fewer(web, web', date)
      BY <2>5, MoreOrFewer
    <3>2. a <= b
      BY <1>1, <2>1, <2>2, <3>1, ValidityGrows
    <3>3. b >= a
      BY <2>3, <3>2
    <3> QED BY <2>1, <2>2, <2>5, <3>3
  <2> QED BY <2>4, <2>5
<1> QED BY <1>2, <1>3, <1>4 DEF EndorsementsOnlyRaise


\* A step after which no identity has more signatures says nothing new.
LEMMA NoMore ==
  ASSUME SignedWell(web), SignedWell(web'),
         \A k \in DOMAIN web'.identities :
           k \in DOMAIN web.identities /\ Len(web'.identities[k]) <= Len(web.identities[k])
  PROVE  EndorsementsOnlyRaise
<1>1. ASSUME NEW k \in Others
      PROVE  ~(Len(Signatures(web', k)) > Len(Signatures(web, k)))
  <2>1. Len(Signatures(web', k)) \in Nat /\ Len(Signatures(web, k)) \in Nat
    BY SignaturesType
  <2>2. CASE k \in DOMAIN web'.identities
    <3>1. Signatures(web', k) = web'.identities[k] /\ Signatures(web, k) = web.identities[k]
      BY <2>2 DEF Signatures
    <3>2. Len(Signatures(web', k)) <= Len(Signatures(web, k))
      BY <2>2, <3>1
    <3> QED BY <2>1, <3>2
  <2>3. CASE k \notin DOMAIN web'.identities
    <3>1. Len(Signatures(web', k)) = 0
      BY <2>3 DEF Signatures
    <3> QED BY <2>1, <3>1
  <2> QED BY <2>2, <2>3
<1> QED BY <1>1 DEF EndorsementsOnlyRaise

\* Endorsements and revocations.
LEMMA SignStep ==
  ASSUME WebInv, NEW k, NEW s, SignedMore(k, s), disk' = disk
  PROVE  WebInv' /\ EndorsementsOnlyRaise
<1>1. /\ web' = [self |-> web'.self, owner |-> web'.owner, identities |-> web'.identities]
      /\ DOMAIN web'.identities = DOMAIN web.identities \cup {k}
      /\ web'.identities[k] = Append(Signatures(web, k), s)
      /\ \A j \in DOMAIN web.identities : j # k => web'.identities[j] = web.identities[j]
      /\ SignedWell(web)'
  BY MoreIs
<1>2. ASSUME NEW j \in DOMAIN disk.identities
      PROVE  j \in DOMAIN web'.identities /\ Len(disk.identities[j]) <= Len(web'.identities[j])
  <2>1. j \in DOMAIN web.identities /\ Len(disk.identities[j]) <= Len(web.identities[j])
        /\ disk.identities[j] \in Seq(Signed)
    BY DEF WebInv, SignedWell
  <2>2. CASE j # k
    BY <1>1, <2>1, <2>2
  <2>3. CASE j = k
    <3>1. PICK q \in Seq(Signed) : q = Signatures(web, k) /\ q = web.identities[k]
      BY <2>1, <2>3, SignaturesType DEF WebInv, Signatures
    <3>2. web'.identities[k] = Append(q, s) /\ Len(Append(q, s)) = Len(q) + 1 /\ Len(q) \in Nat
      BY <1>1, <3>1
    <3>3. PICK n \in Nat : n = Len(disk.identities[j])
      BY <2>1
    <3> QED BY <1>1, <2>1, <2>3, <3>1, <3>2, <3>3
  <2> QED BY <2>2, <2>3
<1>3. SignedWell(disk')
  BY DEF WebInv
<1>4. disk' = [self |-> disk'.self, owner |-> disk'.owner, identities |-> disk'.identities]
  BY DEF WebInv
<1>5. WebInv'
  BY <1>1, <1>2, <1>3, <1>4 DEF WebInv
<1> QED BY <1>5, MoreRaises

\* What a save, whole or not, writes over what the store had.
LEMMA WrittenKeeps ==
  ASSUME WebInv, NEW ids \in SUBSET DOMAIN web.identities, NEW owners
  PROVE  LET d == Written(ids, owners)
         IN  /\ d = [self |-> d.self, owner |-> d.owner, identities |-> d.identities]
             /\ SignedWell(d)
             /\ \A k \in DOMAIN d.identities :
                  k \in DOMAIN web.identities /\ Len(d.identities[k]) <= Len(web.identities[k])
<1>1. PICK map : map = Over([k \in ids |-> web.identities[k]], disk.identities)
  OBVIOUS
<1>2. PICK d : d = Written(ids, owners)
  OBVIOUS
<1>3. d = [self |-> d.self, owner |-> d.owner, identities |-> d.identities] /\ d.identities = map
  BY <1>1, <1>2 DEF Written
<1>4. /\ DOMAIN map = ids \cup DOMAIN disk.identities
      /\ \A k \in DOMAIN map : map[k] = IF k \in ids THEN web.identities[k] ELSE disk.identities[k]
  BY <1>1 DEF Over
<1>5. SignedWell(d)
  BY <1>3, <1>4 DEF SignedWell, WebInv
<1>6. ASSUME NEW k \in DOMAIN map
      PROVE  k \in DOMAIN web.identities /\ Len(map[k]) <= Len(web.identities[k])
  <2>1. CASE k \in ids
    <3>1. k \in DOMAIN web.identities /\ map[k] = web.identities[k]
      BY <1>4, <2>1
    <3>2. Len(web.identities[k]) \in Nat
      BY <3>1 DEF WebInv, SignedWell
    <3> QED BY <3>1, <3>2
  <2>2. CASE k \notin ids
    BY <1>4, <2>2 DEF WebInv
  <2> QED BY <2>1, <2>2
<1> QED BY <1>2, <1>3, <1>5, <1>6

\* The invariant holds before the first start has done anything.
LEMMA WebInit == TInit => WebInv
<1> SUFFICES ASSUME TInit PROVE WebInv
  OBVIOUS
<1>1. web = EmptyWeb \/ web = SetSelf(EmptyWeb, Me)
  BY DEF TInit
<1>2. web = [self |-> web.self, owner |-> web.owner, identities |-> web.identities] /\ web.identities = <<>>
  BY <1>1 DEF EmptyWeb, SetSelf
<1>3. disk = [self |-> disk.self, owner |-> disk.owner, identities |-> disk.identities] /\ disk.identities = <<>>
  BY DEF TInit, EmptyWeb
<1>4. \A w : w.identities = <<>> => SignedWell(w)
  <2>1. DOMAIN <<>> = {}
    OBVIOUS
  <2> QED BY <2>1 DEF SignedWell
<1>5. DOMAIN disk.identities = {}
  BY <1>3
<1> QED BY <1>2, <1>3, <1>4, <1>5 DEF WebInv

\* Every step keeps the invariant and changes the web the way its signatures say.
LEMMA WebStep ==
  ASSUME WebInv, StoreInv, [TrustNext]_tvars
  PROVE  WebInv' /\ EndorsementsOnlyRaise
<1>1. ASSUME web'.identities = web.identities
      PROVE  SignedWell(web') /\ EndorsementsOnlyRaise
  <2>1. SignedWell(web) /\ SignedWell(web')
    BY <1>1 DEF WebInv, SignedWell
  <2>2. ASSUME NEW k \in DOMAIN web'.identities
        PROVE  k \in DOMAIN web.identities /\ Len(web'.identities[k]) <= Len(web.identities[k])
    <3>1. web.identities[k] \in Seq(Signed) /\ k \in DOMAIN web.identities
      BY <1>1, <2>1 DEF SignedWell
    <3>2. Len(web.identities[k]) \in Nat
      BY <3>1
    <3> QED BY <1>1, <3>1, <3>2
  <2> QED BY <2>1, <2>2, NoMore
<1>2. ASSUME UNCHANGED <<web, disk>>
      PROVE  WebInv' /\ EndorsementsOnlyRaise
  BY <1>1, <1>2 DEF WebInv, SignedWell
<1>3. ASSUME NEW signer \in Keys, NEW k, NEW level \in {"Marginal", "Full"}, NEW expires \in Nat,
             Endorse(signer, k, level, expires)
      PROVE  WebInv' /\ EndorsementsOnlyRaise
  <2>1. PICK s : s = [signer |-> signer, level |-> level, revokes |-> FALSE, expires |-> expires]
    OBVIOUS
  <2>2. s \in Signed /\ ~s.revokes
    BY <2>1 DEF Signed, Levels
  <2>3. web' = [web EXCEPT !.identities = With(@, k, Append(Signatures(web, k), s))] /\ disk' = disk
    BY <1>3, <2>1 DEF Endorse, AddIdentity, Package, Signatures
  <2>4. SignedMore(k, s)
    BY <2>2, <2>3 DEF SignedMore
  <2> QED BY <2>3, <2>4, SignStep
<1>4. ASSUME NEW signer \in Keys, NEW k, Revoke(signer, k)
      PROVE  WebInv' /\ EndorsementsOnlyRaise
  <2>1. PICK s : s = [signer |-> signer, level |-> "Unknown", revokes |-> TRUE, expires |-> 0]
    OBVIOUS
  <2>2. s \in Signed
    BY <2>1 DEF Signed, Levels
  <2>3. /\ web' = [web EXCEPT !.identities = With(@, k, Append(Signatures(web, k), s))]
        /\ k \in DOMAIN web.identities /\ disk' = disk
    BY <1>4, <2>1 DEF Revoke, AddIdentity, Package, Signatures
  <2>4. SignedMore(k, s)
    BY <2>2, <2>3 DEF SignedMore
  <2> QED BY <2>3, <2>4, SignStep
<1>5. ASSUME NEW k, NEW level, SetOwnerTrust(k, level)
      PROVE  WebInv' /\ EndorsementsOnlyRaise
  <2>1. web' = [web EXCEPT !.owner = With(@, k, level)] /\ disk' = disk
    BY <1>5 DEF SetOwnerTrust
  <2>2. /\ web' = [self |-> web'.self, owner |-> web'.owner, identities |-> web'.identities]
        /\ web'.identities = web.identities
    BY <2>1 DEF WebInv
  <2> QED BY <1>1, <2>1, <2>2 DEF WebInv
<1>6. CASE WebNext
  <2>1. 0 \in Nat /\ 1 \in Nat /\ "Full" \in {"Marginal", "Full"}
    OBVIOUS
  <2> QED BY <1>3, <1>4, <1>5, <1>6, <2>1 DEF WebNext
<1>7. CASE CacheNext
  BY <1>2, <1>7 DEF CacheNext, GetValidIdentities, DateMoves, CalculateValidity
<1>8. CASE SaveWebOfTrust
  <2>1. web' = web /\ disk' = Written(DOMAIN web.identities, DOMAIN web.owner)
    BY <1>8 DEF SaveWebOfTrust
  <2>2. /\ disk' = [self |-> disk'.self, owner |-> disk'.owner, identities |-> disk'.identities]
        /\ SignedWell(disk')
        /\ \A k \in DOMAIN disk'.identities :
             k \in DOMAIN web.identities /\ Len(disk'.identities[k]) <= Len(web.identities[k])
    BY <2>1, WrittenKeeps
  <2> QED BY <1>1, <2>1, <2>2 DEF WebInv
<1>9. CASE Restart
  <2>1. /\ disk'.self = disk.self /\ web' = LoadWebOfTrust(disk')
        /\ \/ disk' = disk
           \/ \E ids \in SUBSET DOMAIN web.identities, owners \in SUBSET DOMAIN web.owner :
                disk' = Written(ids, owners)
    BY <1>9, RestartWrites
  <2>2. /\ disk' = [self |-> disk'.self, owner |-> disk'.owner, identities |-> disk'.identities]
        /\ SignedWell(disk')
        /\ \A k \in DOMAIN disk'.identities :
             k \in DOMAIN web.identities /\ Len(disk'.identities[k]) <= Len(web.identities[k])
    <3>1. CASE disk' = disk
      BY <3>1 DEF WebInv
    <3>2. ASSUME NEW ids \in SUBSET DOMAIN web.identities, NEW owners, disk' = Written(ids, owners)
          PROVE  /\ disk' = [self |-> disk'.self, owner |-> disk'.owner, identities |-> disk'.identities]
                 /\ SignedWell(disk')
                 /\ \A k \in DOMAIN disk'.identities :
                      k \in DOMAIN web.identities /\ Len(disk'.identities[k]) <= Len(web.identities[k])
      BY <3>2, WrittenKeeps
    <3> QED BY <2>1, <3>1, <3>2
  <2>3. disk'.self \in {Nobody, <<Me>>}
    BY <2>1 DEF StoreInv, StoreKeeps
  <2>4. web'.identities = disk'.identities
    BY <2>1, <2>3, LoadedWeb
  <2>5. web' = [self |-> web'.self, owner |-> web'.owner, identities |-> web'.identities]
    BY <2>1 DEF LoadWebOfTrust
  <2>6. SignedWell(web')
    BY <2>2, <2>4 DEF SignedWell
  <2>7. EndorsementsOnlyRaise
    BY <2>2, <2>4, <2>6, NoMore DEF WebInv
  <2>8. ASSUME NEW k \in DOMAIN disk'.identities
        PROVE  k \in DOMAIN web'.identities /\ Len(disk'.identities[k]) <= Len(web'.identities[k])
    <3>1. disk'.identities[k] \in Seq(Signed)
      BY <2>2 DEF SignedWell
    <3>2. Len(disk'.identities[k]) \in Nat
      BY <3>1
    <3> QED BY <2>4, <3>2
  <2> QED BY <2>2, <2>5, <2>6, <2>7, <2>8 DEF WebInv
<1>10. CASE UNCHANGED tvars
  BY <1>2, <1>10 DEF tvars
<1> QED BY <1>6, <1>7, <1>8, <1>9, <1>10 DEF TrustNext, SavesNext

\* A new endorsement never makes any identity less valid and a new revocation never makes one more
\* valid, along whatever paths of introducers and however the owner trusts them, and a restart in the
\* middle of a save takes nothing from the web (add_identity, find_trust_paths, calculate_validity,
\* save_web_of_trust, load_web_of_trust).
THEOREM WebEvolvesHolds == TrustSpec => WebEvolves
<1>1. TInit => WebInv /\ StoreInv
  BY WebInit DEF TInit, StoreInv, StoreKeeps, EmptyWeb, SetSelf
<1>2. WebInv /\ StoreInv /\ [TrustNext]_tvars => WebInv' /\ StoreInv' /\ EndorsementsOnlyRaise
  BY WebStep, StoreStep
<1>3. TrustSpec => TInit /\ [][TrustNext]_tvars
  BY DEF TrustSpec, TrustNext
<1>4. TrustSpec => [][EndorsementsOnlyRaise]_tvars
  BY <1>1, <1>2, <1>3, PTL
<1>5. [EndorsementsOnlyRaise]_tvars /\ [SavedWebSurvives]_tvars
        => [EndorsementsOnlyRaise /\ SavedWebSurvives]_tvars
  OBVIOUS
<1> QED BY <1>4, <1>5, SavedWebTheorem, PTL DEF WebEvolves

-----------------------------------------------------------------------------
(* The identity of a node *)

\* While nothing went wrong with the file, the key last served under is in it and no other is being
\* written; a key being written is none that served.
IdentityInv == identity # 0 /\ ~unstored => file = identity /\ writing = 0

\* A node whose key file could be read and written serves under the same key after every restart,
\* wherever the process died (load_or_mint, load_key).
THEOREM IdentityTheorem == KeySpec => IdentityKept
<1> DEFINE Kept == using' # 0 /\ using = 0 /\ identity # 0 /\ ~unstored => using' = identity
<1> USE DEF IdentityInv, Serve
<1>1. KeyInit => IdentityInv
  BY DEF KeyInit
<1>2. IdentityInv /\ [KeyNext]_keyvars => IdentityInv'
  BY DEF KeyNext, keyvars, LoadKey, MintKey, WriteKey, KeepEphemeral, StopNode
<1>3. IdentityInv /\ [KeyNext]_keyvars => [Kept]_keyvars
  BY DEF KeyNext, keyvars, LoadKey, MintKey, WriteKey, KeepEphemeral, StopNode
<1> QED BY <1>1, <1>2, <1>3, PTL DEF KeySpec, IdentityKept

-----------------------------------------------------------------------------
(* The signed envelope *)

IsEnvelope(env) ==
  env = [to |-> env.to, from |-> env.from, from_addr |-> env.from_addr, unl |-> env.unl,
         nonce |-> env.nonce, sender_pub |-> env.sender_pub]

\* A signature that exists was made by sealing an envelope with the bytes it covers, or by the
\* keyring on bytes of its domain.
SignaturesMade ==
  /\ \A env \in sealed : IsEnvelope(env)
  /\ \A sig \in signed :
       \/ \E env \in sealed : sig = <<env.sender_pub, SigningBytes(env)>>
       \/ \E node, env : sig = <<node, KeyringBytes(SigningBytes(env))>>

\* The bytes of two envelopes are the same only if the envelopes are: no field is left out and none
\* runs into the next (signing_bytes).
LEMMA SigningBytesInjective ==
  ASSUME NEW env, NEW n, IsEnvelope(env), IsEnvelope(n), SigningBytes(env) = SigningBytes(n)
  PROVE  env = n
  BY DEF SigningBytes, IsEnvelope

\* What the keyring signs for an agent is never the bytes of an envelope (APP_SIGN_DOMAIN).
LEMMA DomainsApart == \A env, n : KeyringBytes(SigningBytes(env)) # SigningBytes(n)
<1> SUFFICES ASSUME NEW env, NEW n PROVE KeyringBytes(SigningBytes(env)) # SigningBytes(n)
  OBVIOUS
<1> DEFINE Parts == {AppDomain, env.to, env.from, env.from_addr, env.unl, env.nonce, env.sender_pub,
                   n.to, n.from, n.from_addr, n.unl, n.nonce, n.sender_pub}
<1>1. SigningBytes(env) \in Seq(Parts) /\ Len(SigningBytes(env)) = 6
  BY DEF SigningBytes
<1>2. <<AppDomain>> \in Seq(Parts) /\ Len(<<AppDomain>>) = 1
  OBVIOUS
<1>3. Len(KeyringBytes(SigningBytes(env))) = 7
  <2> HIDE DEF Parts
  <2>1. ASSUME NEW s \in Seq(Parts), NEW t \in Seq(Parts), Len(s) = 1, Len(t) = 6 PROVE Len(s \o t) = 7
    <3>1. Len(s \o t) = Len(s) + Len(t)
      OBVIOUS
    <3> QED BY ONLY <2>1, <3>1, Z3
  <2> QED BY <1>1, <1>2, <2>1 DEF KeyringBytes
<1>4. Len(SigningBytes(n)) = 6
  BY DEF SigningBytes
<1> QED BY <1>3, <1>4

\* Whatever the gate admits was sealed with these very fields by the node whose key it names, for
\* any senders, addresses and number of signatures, signatures made for agents included
\* (signing_bytes, seal, NodeKeyring::sign, wire_admit).
THEOREM AdmittedTheorem == SealSpec => []AdmittedWasSealed
<1> DEFINE Inv == SignaturesMade /\ AdmittedWasSealed
<1>1. SealInit => Inv
  BY DEF SealInit, SignaturesMade, AdmittedWasSealed
<1>2. Inv /\ [SealNext]_sealvars => Inv'
  <2> SUFFICES ASSUME Inv, [SealNext]_sealvars PROVE Inv'
    OBVIOUS
  <2>1. ASSUME NEW node \in Keyholders, NEW from \in Senders, NEW addr \in ReturnAddrs,
               Seal(node, from, addr)
        PROVE  Inv'
    <3> DEFINE env == [to |-> "t", from |-> from, from_addr |-> addr, unl |-> "u",
                     nonce |-> Cardinality(sealed), sender_pub |-> node]
    <3>1. IsEnvelope(env) /\ env.sender_pub = node
      BY DEF IsEnvelope
    <3>2. /\ sealed' = sealed \union {env} /\ signed' = signed \union {<<node, SigningBytes(env)>>}
          /\ admitted' = admitted
      BY <2>1 DEF Seal
    <3> HIDE DEF env
    <3> QED BY <3>1, <3>2 DEF SignaturesMade, AdmittedWasSealed
  <2>2. ASSUME NEW env \in Envelopes, KeyringSign(env.sender_pub, env) PROVE Inv'
    BY <2>2 DEF KeyringSign, SignaturesMade, AdmittedWasSealed
  <2>3. ASSUME NEW env \in Envelopes, NEW sig \in signed, ReceiveEnvelope(env, sig) PROVE Inv'
    <3>1. sig = <<env.sender_pub, SigningBytes(env)>>
      BY <2>3 DEF ReceiveEnvelope, WireAdmit, Verify
    <3>2. PICK n \in sealed : sig = <<n.sender_pub, SigningBytes(n)>>
      BY <3>1, DomainsApart DEF SignaturesMade
    <3>3. IsEnvelope(env) /\ IsEnvelope(n)
      BY DEF Envelopes, IsEnvelope, SignaturesMade
    <3>4. env = n
      BY <3>1, <3>2, <3>3, SigningBytesInjective
    <3> QED BY <2>3, <3>4 DEF ReceiveEnvelope, SignaturesMade, AdmittedWasSealed
  <2>4. CASE UNCHANGED sealvars
    BY <2>4 DEF sealvars, SignaturesMade, AdmittedWasSealed
  <2> QED BY <2>1, <2>2, <2>3, <2>4 DEF SealNext
<1> QED BY <1>1, <1>2, PTL DEF SealSpec

-----------------------------------------------------------------------------
(* The state of an agent *)

\* A stored key tells the agent and the key apart, however their names run together
\* (SledStore::scoped): the length comes first.
LEMMA ScopedInjective ==
  ASSUME NEW ns \in Namespaces, NEW key \in StateKeys, NEW other \in Namespaces, NEW k \in StateKeys,
         Scoped(ns, key) = Scoped(other, k)
  PROVE  ns = other /\ key = k
<1> DEFINE Char == Int \union STRING
<1>1. ASSUME NEW a \in Seq(STRING), NEW b \in Seq(STRING)
      PROVE  /\ Len(Scoped(a, b)) = 1 + Len(a) + Len(b) /\ Scoped(a, b)[1] = Len(a)
             /\ \A i \in 1 .. Len(a) : Scoped(a, b)[1 + i] = a[i]
             /\ \A i \in 1 .. Len(b) : Scoped(a, b)[1 + Len(a) + i] = b[i]
  <2>1. <<Len(a)>> \in Seq(Char) /\ a \in Seq(Char) /\ b \in Seq(Char) /\ Len(<<Len(a)>>) = 1
        /\ <<Len(a)>>[1] = Len(a)
    OBVIOUS
  <2> DEFINE h == <<Len(a)>>
  <2> HIDE DEF Char, h
  <2>2. /\ h \o a \in Seq(Char) /\ Len(h \o a) = 1 + Len(a)
        /\ \A i \in 1 .. 1 + Len(a) : (h \o a)[i] = IF i <= 1 THEN h[i] ELSE a[i - 1]
    <3>1. h \in Seq(Char) /\ Len(h) = 1
      BY <2>1 DEF h
    <3>2. ASSUME NEW u \in Seq(Char), NEW v \in Seq(Char), Len(u) = 1
          PROVE  /\ u \o v \in Seq(Char) /\ Len(u \o v) = 1 + Len(v)
                 /\ \A i \in 1 .. 1 + Len(v) : (u \o v)[i] = IF i <= 1 THEN u[i] ELSE v[i - 1]
      <4>1. u \o v \in Seq(Char)
        OBVIOUS
      <4>2. Len(u \o v) = Len(u) + Len(v)
        OBVIOUS
      <4>3. \A i \in 1 .. Len(u) + Len(v) : (u \o v)[i] = IF i <= Len(u) THEN u[i] ELSE v[i - Len(u)]
        OBVIOUS
      <4> QED BY <3>2, <4>1, <4>2, <4>3
    <3> QED BY <2>1, <3>1, <3>2
  <2>3. /\ Len((h \o a) \o b) = 1 + Len(a) + Len(b)
        /\ \A i \in 1 .. 1 + Len(a) + Len(b) :
             ((h \o a) \o b)[i] = IF i <= 1 + Len(a) THEN (h \o a)[i] ELSE b[i - (1 + Len(a))]
    <3>1. ASSUME NEW u \in Seq(Char), NEW v \in Seq(Char), Len(u) = 1 + Len(a)
          PROVE  /\ Len(u \o v) = 1 + Len(a) + Len(v)
                 /\ \A i \in 1 .. 1 + Len(a) + Len(v) :
                      (u \o v)[i] = IF i <= 1 + Len(a) THEN u[i] ELSE v[i - (1 + Len(a))]
      BY <3>1
    <3> QED BY <2>1, <2>2, <3>1
  <2>4. Scoped(a, b) = (h \o a) \o b
    BY DEF Scoped, h
  <2>5. Len(a) \in Nat /\ Len(b) \in Nat /\ h[1] = Len(a)
    BY <2>1 DEF h
  <2> DEFINE s == (h \o a) \o b
             p == h \o a
  <2>6. s = Scoped(a, b) /\ p \in Seq(Char)
    BY <2>2, <2>4
  <2>7. /\ Len(s) = 1 + Len(a) + Len(b)
        /\ \A i \in 1 .. 1 + Len(a) + Len(b) : s[i] = IF i <= 1 + Len(a) THEN p[i] ELSE b[i - (1 + Len(a))]
        /\ \A i \in 1 .. 1 + Len(a) : p[i] = IF i <= 1 THEN h[i] ELSE a[i - 1]
    BY <2>2, <2>3
  <2> HIDE DEF s, p
  <2>8. s[1] = Len(a)
    BY <2>5, <2>7
  <2>9. ASSUME NEW i \in 1 .. Len(a) PROVE s[1 + i] = a[i]
    BY <2>5, <2>7
  <2>10. ASSUME NEW i \in 1 .. Len(b) PROVE s[1 + Len(a) + i] = b[i]
    BY <2>5, <2>7
  <2> QED BY <2>6, <2>7, <2>8, <2>9, <2>10
<1>2. {ns, key, other, k} \subseteq Seq(STRING)
  BY GatewayAssumption
<1> DEFINE s == Scoped(ns, key)
<1>a. /\ Len(s) = 1 + Len(ns) + Len(key) /\ s[1] = Len(ns)
      /\ \A i \in 1 .. Len(ns) : s[1 + i] = ns[i]
      /\ \A i \in 1 .. Len(key) : s[1 + Len(ns) + i] = key[i]
  BY <1>1, <1>2
<1>b. /\ Len(s) = 1 + Len(other) + Len(k) /\ s[1] = Len(other)
      /\ \A i \in 1 .. Len(other) : s[1 + i] = other[i]
      /\ \A i \in 1 .. Len(k) : s[1 + Len(other) + i] = k[i]
  <2>1. s = Scoped(other, k)
    OBVIOUS
  <2> HIDE DEF s
  <2> QED BY <1>1, <1>2, <2>1
<1> HIDE DEF s
<1>3. Len(ns) = Len(other) /\ Len(key) = Len(k)
  BY <1>2, <1>a, <1>b
<1>4. \A i \in 1 .. Len(ns) : ns[i] = other[i]
  BY <1>3, <1>a, <1>b
<1>5. \A i \in 1 .. Len(key) : key[i] = k[i]
  BY <1>3, <1>a, <1>b
<1> QED BY <1>2, <1>3, <1>4, <1>5, SeqEqual

KvType ==
  /\ wrote \in [Namespaces -> [StateKeys -> Nat]]
  /\ used \in [Namespaces -> Nat] /\ mounts \in [Namespaces -> Nat \ {0}]

\* What an agent holds beyond what its present handle counts is at most a quota for each handle it
\* had before, and the handle never counts more than the quota.
Accounted(lengths, u, had) == u <= StateQuota /\ SumFunction(lengths) <= u + (had - 1) * StateQuota

QuotaKept == \A ns \in Namespaces : Accounted(wrote[ns], used[ns], mounts[ns])

KvInv == KvType /\ NamespacesApart /\ QuotaKept

LEMMA SumOfLengths ==
  ASSUME NEW f \in [StateKeys -> Nat]
  PROVE  SumFunction(f) = SumFunctionOnSet(f, StateKeys) /\ SumFunction(f) \in Int
<1>1. SumFunction(f) = SumFunctionOnSet(f, StateKeys)
  BY DEF SumFunction
<1>2. \A x \in StateKeys : f[x] \in Int
  OBVIOUS
<1>3. SumFunctionOnSet(f, StateKeys) \in Int
  BY <1>2, GatewayAssumption, SumType
<1> QED BY <1>1, <1>3, Zenon

\* A new handle counts nothing as used, and what its agent holds is within one quota more.
LEMMA HandleRenewed ==
  ASSUME NEW f \in [StateKeys -> Nat], NEW u \in Nat, NEW had \in Nat, Accounted(f, u, had)
  PROVE  Accounted(f, 0, had + 1) /\ SumFunction(f) <= had * StateQuota
<1>1. \A q \in Nat : had * q = (had - 1) * q + q /\ (had - 1) * q \in Int /\ ((had + 1) - 1) * q = had * q
  BY Z3
<1> DEFINE s == SumFunction(f)
           r == (had - 1) * StateQuota
           t == had * StateQuota
           v == ((had + 1) - 1) * StateQuota
<1>2. /\ s \in Int /\ r \in Int /\ StateQuota \in Nat /\ t = r + StateQuota /\ v = t
      /\ u <= StateQuota /\ s <= u + r
  BY <1>1, GatewayAssumption, SumOfLengths DEF Accounted
<1>3. 0 <= StateQuota /\ s <= 0 + v /\ s <= t
  <2> HIDE DEF s, r, t, v
  <2> QED BY <1>2
<1> QED BY <1>3, Zenon DEF Accounted

\* Writing n where h was, with the count at u - h or at 0, gains nothing on the count.
LEMMA CountFollows ==
  ASSUME NEW f \in [StateKeys -> Nat], NEW key \in StateKeys, NEW n \in Nat, NEW u \in Nat, NEW had \in Nat,
         Accounted(f, u, had), Minus(u, f[key]) + n <= StateQuota
  PROVE  /\ Accounted([f EXCEPT ![key] = n], Minus(u, f[key]) + n, had)
         /\ Minus(u, f[key]) + n \in Nat
<1> DEFINE g == [f EXCEPT ![key] = n]
           s == SumFunction(f)
           t == SumFunction(g)
           r == (had - 1) * StateQuota
<1>1. g \in [StateKeys -> Nat] /\ g[key] = n /\ \A k \in StateKeys \ {key} : g[k] = f[k]
  OBVIOUS
<1>2. f \in [StateKeys -> Int] /\ g \in [StateKeys -> Int]
  OBVIOUS
<1>3. t = s - f[key] + n
  <2> HIDE DEF g
  <2>1. SumFunctionOnSet(g, StateKeys) = SumFunctionOnSet(f, StateKeys) - f[key] + g[key]
    <3>1. IsFiniteSet(StateKeys)
      BY GatewayAssumption
    <3>2. \A k \in StateKeys \ {key} : g[k] = f[k]
      BY <1>1
    <3> QED BY ONLY <1>2, <3>1, <3>2, SumChange
  <2> QED BY <1>1, <2>1, SumOfLengths
<1>4. s \in Int /\ t \in Int /\ r \in Int /\ f[key] \in Nat /\ s <= u + r
  <2>1. r \in Int
    BY GatewayAssumption
  <2>2. s \in Int
    BY SumOfLengths
  <2>3. t \in Int
    <3> HIDE DEF g
    <3> QED BY <1>1, SumOfLengths
  <2> QED BY <2>1, <2>2, <2>3 DEF Accounted
<1>5. t <= (Minus(u, f[key]) + n) + r
  <2> HIDE DEF s, t, r
  <2> QED BY <1>3, <1>4 DEF Minus
<1>6. Minus(u, f[key]) + n \in Nat
  BY <1>4 DEF Minus
<1> QED BY <1>5, <1>6 DEF Accounted

\* What is stored under a key of one agent changes nothing for other agents and keys.
LEMMA ApartFrom ==
  ASSUME NEW ns \in Namespaces, NEW key \in StateKeys, NEW n \in Nat, KvInv,
         \/ db' = With(db, Scoped(ns, key), n)
         \/ n = 0 /\ db' = Without(db, Scoped(ns, key)),
         wrote' = [wrote EXCEPT ![ns] = [wrote[ns] EXCEPT ![key] = n]]
  PROVE  NamespacesApart'
<1> SUFFICES ASSUME NEW o \in Namespaces, NEW k \in StateKeys
             PROVE  HeldBytes(Scoped(o, k))' = wrote'[o][k]
  BY DEF NamespacesApart
<1>1. HeldBytes(Scoped(o, k)) = wrote[o][k] /\ wrote[o] \in [StateKeys -> Nat]
  BY DEF KvInv, NamespacesApart, KvType
<1> DEFINE a == Scoped(ns, key)
           b == Scoped(o, k)
<1>2. a = b => ns = o /\ key = k
  BY ScopedInjective
<1>3. wrote'[o][k] = IF o = ns /\ k = key THEN n ELSE wrote[o][k]
  BY <1>1 DEF KvInv, KvType
<1>4. HeldBytes(b)' = IF a = b THEN n ELSE HeldBytes(b)
  <2>1. HeldBytes(b)' = IF b \in DOMAIN db' THEN db'[b] ELSE 0
    BY DEF HeldBytes
  <2>2. HeldBytes(b) = IF b \in DOMAIN db THEN db[b] ELSE 0
    BY DEF HeldBytes
  <2> HIDE DEF a, b
  <2>3. db' = With(db, a, n) \/ (n = 0 /\ db' = Without(db, a))
    BY Zenon DEF a
  <2> QED BY <2>1, <2>2, <2>3 DEF With, Without
<1>5. a = b <=> o = ns /\ k = key
  BY <1>2
<1> HIDE DEF a, b
<1>6. HeldBytes(b)' = wrote'[o][k]
  BY <1>1, <1>3, <1>4, <1>5 DEF b
<1> QED BY <1>6 DEF b

\* Every operation on the store keeps the agents apart and the accounts right.
LEMMA KvStep == KvInv /\ [KvNext]_kvvars => KvInv'
<1> SUFFICES ASSUME KvInv, [KvNext]_kvvars PROVE KvInv'
  OBVIOUS
<1>0. /\ \A ns \in Namespaces : wrote[ns] \in [StateKeys -> Nat] /\ used[ns] \in Nat /\ mounts[ns] \in Nat \ {0}
      /\ \A ns \in Namespaces : Accounted(wrote[ns], used[ns], mounts[ns])
  BY DEF KvInv, KvType, QuotaKept
<1>1. ASSUME db' = db, wrote' = wrote PROVE NamespacesApart'
  <2>1. \A k : HeldBytes(k)' = HeldBytes(k)
    BY <1>1 DEF HeldBytes
  <2> QED BY <1>1, <2>1 DEF NamespacesApart, KvInv
<1>2. CASE SetStore
  <2>1. KvType'
    BY <1>0, <1>2 DEF SetStore, KvType, KvInv
  <2>2. \A ns \in Namespaces : wrote'[ns] = wrote[ns] /\ used'[ns] = 0 /\ mounts'[ns] = mounts[ns] + 1
    BY <1>2 DEF SetStore
  <2>3. QuotaKept'
    BY <1>0, <2>2, HandleRenewed DEF QuotaKept
  <2> QED BY <1>1, <1>2, <2>1, <2>3 DEF SetStore, KvInv
<1>3. ASSUME NEW o \in Namespaces, MountAgain(o) PROVE KvInv'
  <2>1. KvType'
    BY <1>0, <1>3 DEF MountAgain, Provision, KvType, KvInv
  <2>2. \A ns \in Namespaces :
          /\ wrote'[ns] = wrote[ns]
          /\ IF ns = o THEN used'[ns] = 0 /\ mounts'[ns] = mounts[ns] + 1
                       ELSE used'[ns] = used[ns] /\ mounts'[ns] = mounts[ns]
    BY <1>3 DEF MountAgain, Provision, KvInv, KvType
  <2>3. QuotaKept'
    BY <1>0, <2>2, HandleRenewed DEF QuotaKept
  <2> QED BY <1>1, <1>3, <2>1, <2>3 DEF MountAgain, KvInv
<1>4. ASSUME NEW o \in Namespaces, NEW key \in StateKeys, NEW n \in Nat,
             \/ db' = With(db, Scoped(o, key), n)
             \/ n = 0 /\ db' = Without(db, Scoped(o, key)),
             wrote' = [wrote EXCEPT ![o] = [wrote[o] EXCEPT ![key] = n]],
             used' = [used EXCEPT ![o] = Minus(used[o], HeldBytes(Scoped(o, key))) + n],
             Minus(used[o], HeldBytes(Scoped(o, key))) + n <= StateQuota,
             mounts' = mounts
      PROVE  KvInv'
  <2>1. HeldBytes(Scoped(o, key)) = wrote[o][key] /\ wrote[o] \in [StateKeys -> Nat]
    BY DEF KvInv, NamespacesApart, KvType
  <2> DEFINE u == Minus(used[o], wrote[o][key]) + n
             g == [wrote[o] EXCEPT ![key] = n]
  <2>2. Accounted(g, u, mounts[o]) /\ u \in Nat
    BY <1>0, <1>4, <2>1, CountFollows
  <2>3. g \in [StateKeys -> Nat] /\ wrote' = [wrote EXCEPT ![o] = g] /\ used' = [used EXCEPT ![o] = u]
    BY <1>4, <2>1
  <2>4. NamespacesApart'
    BY <1>4, ApartFrom
  <2> HIDE DEF u, g
  <2>5. KvType'
    BY <1>4, <2>2, <2>3 DEF KvInv, KvType
  <2>6. \A ns \in Namespaces :
          /\ mounts'[ns] = mounts[ns]
          /\ IF ns = o THEN used'[ns] = u /\ wrote'[ns] = g ELSE used'[ns] = used[ns] /\ wrote'[ns] = wrote[ns]
    BY <1>4, <2>3 DEF KvInv, KvType
  <2>7. QuotaKept'
    BY <1>0, <2>2, <2>6 DEF QuotaKept
  <2> QED BY <2>4, <2>5, <2>7 DEF KvInv
<1>5. ASSUME NEW o \in Namespaces, NEW key \in StateKeys, NEW n \in Lengths, Put(o, key, n) PROVE KvInv'
  <2>1. n \in Nat
    BY GatewayAssumption
  <2> QED BY <1>4, <1>5, <2>1 DEF Put, Projected
<1>6. ASSUME NEW o \in Namespaces, NEW key \in StateKeys, Del(o, key) PROVE KvInv'
  <2> DEFINE h == HeldBytes(Scoped(o, key))
  <2>1. h \in Nat /\ used[o] \in Nat /\ used[o] <= StateQuota /\ StateQuota \in Nat
    BY <1>0, GatewayAssumption DEF KvInv, NamespacesApart, KvType, Accounted
  <2>2. Minus(used[o], h) + 0 = Minus(used[o], h) /\ Minus(used[o], h) + 0 <= StateQuota
    <3> HIDE DEF h
    <3> QED BY <2>1 DEF Minus
  <2> QED BY <1>4, <1>6, <2>2 DEF Del
<1>7. CASE UNCHANGED kvvars
  BY <1>1, <1>7 DEF kvvars, KvInv, KvType, QuotaKept
<1> QED BY <1>2, <1>3, <1>5, <1>6, <1>7 DEF KvNext

\* Whatever agents put and delete through however many handles, each reads its own values only, and
\* holds at most its quota for each handle it was given (SledStore::scoped, ScopedKv::put, del).
THEOREM AgentStateTheorem == KvSpec => [](NamespacesApart /\ QuotaPerHandle)
<1>1. KvInit => KvInv
  <2> SUFFICES ASSUME KvInit PROVE KvInv
    OBVIOUS
  <2>1. KvType
    BY DEF KvInit, KvType
  <2>2. NamespacesApart
    BY DEF KvInit, NamespacesApart, HeldBytes
  <2>3. ASSUME NEW ns \in Namespaces PROVE Accounted(wrote[ns], used[ns], mounts[ns])
    <3>1. wrote[ns] \in [StateKeys -> Nat] /\ (\A k \in StateKeys : wrote[ns][k] = 0) /\ used[ns] = 0 /\ mounts[ns] = 1
      BY <2>3 DEF KvInit
    <3>2. SumFunction(wrote[ns]) = 0
      BY <3>1, SumZero, SumOfLengths, GatewayAssumption
    <3>3. StateQuota \in Nat /\ (1 - 1) * StateQuota = 0
      BY GatewayAssumption
    <3> QED BY <3>1, <3>2, <3>3 DEF Accounted
  <2> QED BY <2>1, <2>2, <2>3 DEF KvInv, QuotaKept
<1>2. KvInv => NamespacesApart /\ QuotaPerHandle
  <2> SUFFICES ASSUME KvInv, NEW ns \in Namespaces
               PROVE  SumFunction([key \in StateKeys |-> HeldBytes(Scoped(ns, key))]) <= mounts[ns] * StateQuota
    BY DEF KvInv, QuotaPerHandle
  <2>1. wrote[ns] \in [StateKeys -> Nat] /\ used[ns] \in Nat /\ mounts[ns] \in Nat
        /\ Accounted(wrote[ns], used[ns], mounts[ns])
    BY DEF KvInv, KvType, QuotaKept
  <2>2. [key \in StateKeys |-> HeldBytes(Scoped(ns, key))] = wrote[ns]
    BY <2>1 DEF KvInv, NamespacesApart
  <2> QED BY <2>1, <2>2, HandleRenewed
<1> QED BY <1>1, <1>2, KvStep, PTL DEF KvSpec

-----------------------------------------------------------------------------
(* The rate of an agent's messages *)

\* The messages let through from one time to another.
Between(e, from, to) == {i \in DOMAIN e : from <= e[i] /\ e[i] < to}

LEMMA BetweenFinite ==
  ASSUME NEW e \in Seq(Nat), NEW from, NEW to
  PROVE  IsFiniteSet(Between(e, from, to)) /\ Cardinality(Between(e, from, to)) \in Nat
<1>1. IsFiniteSet(1 .. Len(e)) /\ DOMAIN e = 1 .. Len(e)
  BY FS_Interval
<1>2. Between(e, from, to) \in SUBSET (1 .. Len(e))
  BY <1>1 DEF Between
<1> QED BY <1>1, <1>2, FS_Subset, FS_CardinalityType

LEMMA BetweenSmaller ==
  ASSUME NEW e \in Seq(Nat), NEW from, NEW to, NEW from2, NEW to2,
         \A i \in DOMAIN e : from <= e[i] /\ e[i] < to => from2 <= e[i] /\ e[i] < to2
  PROVE  Cardinality(Between(e, from, to)) <= Cardinality(Between(e, from2, to2))
<1>1. Between(e, from, to) \in SUBSET Between(e, from2, to2)
  BY DEF Between
<1> QED BY <1>1, BetweenFinite, FS_Subset

LEMMA BetweenSplit ==
  ASSUME NEW e \in Seq(Nat), NEW from, NEW to, NEW from1, NEW to1, NEW from2, NEW to2,
         \A i \in DOMAIN e : from <= e[i] /\ e[i] < to =>
           \/ from1 <= e[i] /\ e[i] < to1
           \/ from2 <= e[i] /\ e[i] < to2
  PROVE  Cardinality(Between(e, from, to)) <=
           Cardinality(Between(e, from1, to1)) + Cardinality(Between(e, from2, to2))
<1> DEFINE a == Between(e, from1, to1)
           b == Between(e, from2, to2)
<1>1. Between(e, from, to) \in SUBSET (a \union b)
  BY DEF Between
<1>2. /\ IsFiniteSet(a) /\ IsFiniteSet(b) /\ IsFiniteSet(a \intersect b)
      /\ Cardinality(a) \in Nat /\ Cardinality(b) \in Nat /\ Cardinality(a \intersect b) \in Nat
  <2>1. IsFiniteSet(a) /\ IsFiniteSet(b) /\ Cardinality(a) \in Nat /\ Cardinality(b) \in Nat
    BY BetweenFinite
  <2>2. a \intersect b \in SUBSET a
    OBVIOUS
  <2> HIDE DEF a, b
  <2> QED BY <2>1, <2>2, FS_Subset, FS_CardinalityType
<1>3. IsFiniteSet(a \union b) /\ Cardinality(a \union b) = Cardinality(a) + Cardinality(b) - Cardinality(a \intersect b)
  <2> HIDE DEF a, b
  <2> QED BY <1>2, FS_Union
<1>4. Cardinality(Between(e, from, to)) <= Cardinality(a \union b)
  <2> HIDE DEF a, b
  <2> QED BY <1>1, <1>3, FS_Subset
<1>5. Cardinality(Between(e, from, to)) \in Nat
  BY BetweenFinite
<1> HIDE DEF a, b
<1>6. Cardinality(Between(e, from, to)) <= Cardinality(a) + Cardinality(b)
  BY <1>2, <1>3, <1>4, <1>5
<1> QED BY <1>6 DEF a, b

\* One more message counts in the spans its time is in.
LEMMA BetweenAppend ==
  ASSUME NEW e \in Seq(Nat), NEW x \in Nat, NEW from, NEW to
  PROVE  Cardinality(Between(Append(e, x), from, to)) =
           IF from <= x /\ x < to THEN Cardinality(Between(e, from, to)) + 1
                                  ELSE Cardinality(Between(e, from, to))
<1> DEFINE n == Len(e) + 1
           a == Between(e, from, to)
           g == Append(e, x)
<1>1. /\ DOMAIN g = 1 .. n /\ g[n] = x /\ DOMAIN e = 1 .. Len(e) /\ n \notin 1 .. Len(e) /\ n \in 1 .. n
      /\ \A i \in 1 .. Len(e) : g[i] = e[i] /\ i \in 1 .. n /\ i # n
      /\ \A i \in 1 .. n : i \in 1 .. Len(e) \/ i = n
  OBVIOUS
<1>2. IsFiniteSet(a) /\ n \notin a
  BY <1>1, BetweenFinite DEF Between
<1>3. CASE from <= x /\ x < to
  <2>1. Between(g, from, to) = a \union {n}
    <3> HIDE DEF n, g
    <3>1. \A i : i \in Between(g, from, to) <=> i \in 1 .. n /\ from <= g[i] /\ g[i] < to
      BY <1>1 DEF Between
    <3>2. \A i : i \in a <=> i \in 1 .. Len(e) /\ from <= e[i] /\ e[i] < to
      BY <1>1 DEF Between
    <3>3. \A i : i \in Between(g, from, to) <=> i \in a \/ i = n
      BY <1>1, <1>3, <3>1, <3>2, Zenon
    <3> HIDE DEF a
    <3> QED BY <3>3
  <2>2. Cardinality(a \union {n}) = Cardinality(a) + 1
    <3> HIDE DEF a, n
    <3> QED BY <1>2, FS_AddElement
  <2>3. Cardinality(Between(Append(e, x), from, to)) = Cardinality(a \union {n})
    BY <2>1, Zenon
  <2> QED BY <1>3, <2>2, <2>3
<1>4. CASE ~(from <= x /\ x < to)
  <2>1. Between(g, from, to) = a
    <3> HIDE DEF n, g
    <3> QED BY <1>1, <1>4 DEF Between
  <2> QED BY <1>4, <2>1, Zenon
<1> QED BY <1>3, <1>4

RateType == tick \in Nat /\ emitted \in Seq(Nat) /\ (window # <<>> => window \in Nat \X Nat)

\* What the window has counted, and what the second before it can have let through.
WindowCounts ==
  IF window = <<>> THEN emitted = <<>>
  ELSE /\ window[1] <= tick /\ window[2] <= MsgPerS
       /\ \A i \in DOMAIN emitted : emitted[i] < window[1] + Second
       /\ Cardinality(Between(emitted, window[1], window[1] + Second)) <= window[2]
       /\ Cardinality(Between(emitted, window[1] - Second + 1, window[1])) <= MsgPerS

RateInv ==
  /\ RateType /\ (\A i \in DOMAIN emitted : emitted[i] <= tick)
  /\ MsgPerS > 0 => WindowCounts /\ \A t \in Int : Cardinality(Between(emitted, t, t + Second)) <= 2 * MsgPerS

\* The window that is current: a renewed one has counted nothing, and every message of the second
\* before it was counted in the one before it.
LEMMA WindowRenewed ==
  ASSUME RateInv, MsgPerS > 0
  PROVE  /\ Window \in Nat \X Nat /\ Window # <<>>
         /\ Window[1] <= tick /\ tick < Window[1] + Second /\ Window[2] <= MsgPerS
         /\ \A i \in DOMAIN emitted : emitted[i] < Window[1] + Second
         /\ Cardinality(Between(emitted, Window[1], Window[1] + Second)) <= Window[2]
         /\ Cardinality(Between(emitted, Window[1] - Second + 1, Window[1])) <= MsgPerS
<1>0. /\ tick \in Nat /\ emitted \in Seq(Nat) /\ Second \in Nat \ {0} /\ MsgPerS \in Nat
      /\ \A i \in DOMAIN emitted : emitted[i] <= tick /\ emitted[i] \in Nat
  <2>1. tick \in Nat /\ emitted \in Seq(Nat) /\ \A i \in DOMAIN emitted : emitted[i] <= tick
    BY DEF RateInv, RateType
  <2>2. \A i \in DOMAIN emitted : emitted[i] \in Nat
    BY <2>1
  <2> QED BY <2>1, <2>2, GatewayAssumption
<1>1. CASE window = <<>>
  <2>1. Window = <<tick, 0>> /\ emitted = <<>>
    BY <1>1 DEF Window, RateInv, WindowCounts
  <2>2. \A f, t : Between(emitted, f, t) = {}
    BY <2>1 DEF Between
  <2>3. \A f, t : Cardinality(Between(emitted, f, t)) = 0
    BY <2>2, FS_EmptySet, Zenon
  <2> QED BY <1>0, <2>1, <2>3
<1>2. CASE window # <<>> /\ Minus(tick, window[1]) >= Second
  <2>1. Window = <<tick, 0>>
    BY <1>2 DEF Window
  <2>2. /\ window[1] \in Nat /\ window[2] \in Nat /\ window[2] <= MsgPerS
        /\ \A i \in DOMAIN emitted : emitted[i] < window[1] + Second
        /\ Cardinality(Between(emitted, window[1], window[1] + Second)) <= window[2]
    BY <1>2 DEF RateInv, RateType, WindowCounts
  <2>3. window[1] + Second <= tick
    BY <1>0, <1>2, <2>2 DEF Minus
  <2>4. Cardinality(Between(emitted, tick - Second + 1, tick)) <= Cardinality(Between(emitted, window[1], window[1] + Second))
    <3>1. \A i \in DOMAIN emitted : tick - Second + 1 <= emitted[i] => window[1] <= emitted[i]
      BY <1>0, <2>2, <2>3
    <3> QED BY <1>0, <2>2, <3>1, BetweenSmaller
  <2>5. Between(emitted, tick, tick + Second) = {}
    BY <1>0, <2>2, <2>3 DEF Between
  <2>6. Cardinality(Between(emitted, tick, tick + Second)) = 0
    BY <2>5, FS_EmptySet, Zenon
  <2>7. Cardinality(Between(emitted, tick - Second + 1, tick)) \in Nat /\ Cardinality(Between(emitted, window[1], window[1] + Second)) \in Nat
    BY <1>0, BetweenFinite
  <2>8. Cardinality(Between(emitted, tick - Second + 1, tick)) <= MsgPerS
    BY <1>0, <2>2, <2>4, <2>7
  <2>9. \A i \in DOMAIN emitted : emitted[i] < tick + Second
    BY <1>0
  <2> QED BY <1>0, <2>1, <2>6, <2>8, <2>9
<1>3. CASE window # <<>> /\ ~(Minus(tick, window[1]) >= Second)
  <2>1. Window = window /\ window \in Nat \X Nat /\ WindowCounts
    BY <1>3 DEF Window, RateInv, RateType
  <2>2. tick < window[1] + Second
    BY <1>0, <1>3, <2>1 DEF Minus, WindowCounts
  <2> QED BY <1>3, <2>1, <2>2 DEF WindowCounts
<1> QED BY <1>1, <1>2, <1>3

\* Asking for the rate keeps every second within twice the limit.
LEMMA RateStep == RateInv /\ [RateNext]_ratevars => RateInv'
<1> SUFFICES ASSUME RateInv, [RateNext]_ratevars PROVE RateInv'
  OBVIOUS
<1>0. /\ tick \in Nat /\ emitted \in Seq(Nat) /\ Second \in Nat \ {0} /\ MsgPerS \in Nat
      /\ \A i \in DOMAIN emitted : emitted[i] <= tick /\ emitted[i] \in Nat
  <2>1. tick \in Nat /\ emitted \in Seq(Nat) /\ \A i \in DOMAIN emitted : emitted[i] <= tick
    BY DEF RateInv, RateType
  <2>2. \A i \in DOMAIN emitted : emitted[i] \in Nat
    BY <2>1
  <2> QED BY <2>1, <2>2, GatewayAssumption
<1>1. CASE TickPasses \/ UNCHANGED ratevars
  <2>1. UNCHANGED <<window, emitted>> /\ tick' \in {tick, tick + 1}
    BY <1>1 DEF TickPasses, ratevars
  <2>2. tick' \in Nat /\ tick <= tick'
    BY <1>0, <2>1
  <2>3. RateType' /\ \A i \in DOMAIN emitted' : emitted'[i] <= tick'
    BY <1>0, <2>1, <2>2 DEF RateInv, RateType
  <2>4. ASSUME MsgPerS > 0 PROVE WindowCounts'
    <3>1. WindowCounts /\ (window # <<>> => window[1] \in Nat)
      BY <2>4 DEF RateInv, RateType
    <3> QED BY <1>0, <2>1, <2>2, <3>1 DEF WindowCounts
  <2> QED BY <2>1, <2>3, <2>4 DEF RateInv
<1>2. CASE DenyRate
  <2>1. MsgPerS > 0 /\ window' = Window /\ tick' = tick /\ emitted' = emitted
    BY <1>2 DEF DenyRate
  <2>2. RateType' /\ WindowCounts'
    BY <1>0, <2>1, WindowRenewed DEF RateType, WindowCounts
  <2> QED BY <2>1, <2>2 DEF RateInv
<1>3. ASSUME NEW isLocal \in BOOLEAN, Emit(isLocal) PROVE RateInv'
  <2>0. tick' = tick /\ (emitted' = emitted \/ emitted' = Append(emitted, tick))
    BY <1>3 DEF Emit
  <2>1. emitted' \in Seq(Nat) /\ \A i \in DOMAIN emitted' : emitted'[i] <= tick
    <3>1. CASE emitted' = emitted
      BY <1>0, <3>1
    <3>2. CASE emitted' = Append(emitted, tick)
      <4>1. /\ Append(emitted, tick) \in Seq(Nat) /\ Len(emitted) \in Nat
            /\ DOMAIN Append(emitted, tick) = 1 .. Len(emitted) + 1 /\ DOMAIN emitted = 1 .. Len(emitted)
            /\ \A i \in 1 .. Len(emitted) : Append(emitted, tick)[i] = emitted[i]
            /\ Append(emitted, tick)[Len(emitted) + 1] = tick
        BY ONLY <1>0
      <4>2. ASSUME NEW i \in 1 .. Len(emitted) + 1 PROVE Append(emitted, tick)[i] <= tick
        <5>1. CASE i \in 1 .. Len(emitted)
          BY ONLY <1>0, <4>1, <5>1
        <5>2. CASE i = Len(emitted) + 1
          BY ONLY <1>0, <4>1, <5>2
        <5> QED BY ONLY <4>1, <4>2, <5>1, <5>2
      <4> QED BY ONLY <3>2, <4>1, <4>2
    <3> QED BY <2>0, <3>1, <3>2
  <2>2. CASE MsgPerS = 0
    <3>1. window' = window
      BY <1>3, <2>2 DEF Emit, RateAllows
    <3> QED BY <1>0, <2>0, <2>1, <2>2, <3>1 DEF RateInv, RateType
  <2>3. CASE MsgPerS > 0
    <3> DEFINE w == Window[1]
               c == Window[2]
    <3>1. /\ w \in Nat /\ c \in Nat /\ w <= tick /\ tick < w + Second /\ c < MsgPerS
          /\ window' = <<w, c + 1>>
          /\ \A i \in DOMAIN emitted : emitted[i] < w + Second
          /\ Cardinality(Between(emitted, w, w + Second)) <= c
          /\ Cardinality(Between(emitted, w - Second + 1, w)) <= MsgPerS
      BY <1>3, <2>3, WindowRenewed DEF Emit, RateAllows
    <3> HIDE DEF w, c
    <3>2. \A f, t : Cardinality(Between(emitted, f, t)) \in Nat /\ Cardinality(Between(emitted', f, t)) \in Nat
      BY <1>0, <2>1, BetweenFinite
    <3>3. \A f, t : Cardinality(Between(emitted', f, t)) <= Cardinality(Between(emitted, f, t))
                      + (IF f <= tick /\ tick < t THEN 1 ELSE 0)
      <4>1. CASE emitted' = emitted
        BY <3>2, <4>1
      <4>2. CASE emitted' = Append(emitted, tick)
        <5>1. \A f, t : Cardinality(Between(emitted', f, t)) = IF f <= tick /\ tick < t
                          THEN Cardinality(Between(emitted, f, t)) + 1 ELSE Cardinality(Between(emitted, f, t))
          BY <1>0, <4>2, BetweenAppend
        <5> QED BY <3>2, <5>1
      <4> QED BY <2>0, <4>1, <4>2
    <3>4. Cardinality(Between(emitted', w, w + Second)) <= c + 1
      <4>1. Cardinality(Between(emitted', w, w + Second)) <= Cardinality(Between(emitted, w, w + Second)) + 1
        BY <3>1, <3>3
      <4> QED BY <3>1, <3>2, <4>1
    <3>5. Cardinality(Between(emitted', w - Second + 1, w)) <= MsgPerS
      <4>1. ~(w - Second + 1 <= tick /\ tick < w)
        BY <1>0, <3>1
      <4>2. Cardinality(Between(emitted', w - Second + 1, w)) <= Cardinality(Between(emitted, w - Second + 1, w)) + 0
        BY <3>3, <4>1
      <4> QED BY <1>0, <3>1, <3>2, <4>2
    <3>6. \A i \in DOMAIN emitted' : emitted'[i] < w + Second
      BY <1>0, <2>1, <3>1
    <3>7. RateType' /\ WindowCounts'
      <4>1. window' # <<>> /\ window' \in Nat \X Nat /\ window'[1] = w /\ window'[2] = c + 1
        BY <3>1
      <4>2. RateType'
        BY <1>0, <2>0, <2>1, <4>1 DEF RateType
      <4>3. c + 1 <= MsgPerS
        BY <1>0, <3>1
      <4> QED BY <2>0, <3>1, <3>4, <3>5, <3>6, <4>1, <4>2, <4>3 DEF WindowCounts
    <3>8. ASSUME NEW t \in Int PROVE Cardinality(Between(emitted', t, t + Second)) <= 2 * MsgPerS
      <4>1. CASE t <= tick /\ tick < t + Second
        <5>1. \A i \in DOMAIN emitted' : t <= emitted'[i] /\ emitted'[i] < t + Second =>
                \/ w <= emitted'[i] /\ emitted'[i] < w + Second
                \/ w - Second + 1 <= emitted'[i] /\ emitted'[i] < w
          BY <1>0, <2>1, <3>1, <3>6, <4>1
        <5>2. Cardinality(Between(emitted', t, t + Second)) <=
                Cardinality(Between(emitted', w, w + Second)) + Cardinality(Between(emitted', w - Second + 1, w))
          BY <2>1, <5>1, BetweenSplit
        <5> QED BY <1>0, <3>1, <3>2, <3>4, <3>5, <5>2
      <4>2. CASE ~(t <= tick /\ tick < t + Second)
        <5>1. Cardinality(Between(emitted, t, t + Second)) <= 2 * MsgPerS
          BY <2>3 DEF RateInv
        <5>2. Cardinality(Between(emitted', t, t + Second)) <= Cardinality(Between(emitted, t, t + Second)) + 0
          BY <3>3, <4>2
        <5> QED BY <1>0, <3>2, <5>1, <5>2
      <4> QED BY <4>1, <4>2
    <3> QED BY <2>0, <2>1, <3>7, <3>8 DEF RateInv
  <2> QED BY <1>0, <2>2, <2>3
<1> QED BY <1>1, <1>2, <1>3 DEF RateNext

\* In no second does more than twice msg_per_s leave, wherever it begins, for any limit, length of
\* the second and run of the clock (rate_allows).
THEOREM RateTheorem == RateSpec => []RateWithinTwice
<1>1. RateInit => RateInv
  <2> SUFFICES ASSUME RateInit PROVE RateInv
    OBVIOUS
  <2>1. emitted = <<>> /\ window = <<>> /\ tick = 0
    BY DEF RateInit
  <2>2. \A f, t : Between(emitted, f, t) = {}
    BY <2>1 DEF Between
  <2>3. \A f, t : Cardinality(Between(emitted, f, t)) = 0
    BY <2>2, FS_EmptySet, Zenon
  <2>4. MsgPerS \in Nat /\ 0 <= 2 * MsgPerS
    BY GatewayAssumption
  <2> QED BY <2>1, <2>3, <2>4 DEF RateInv, RateType, WindowCounts
<1>2. RateInv => RateWithinTwice
  <2> SUFFICES ASSUME RateInv, MsgPerS > 0, NEW t \in 0 .. MaxTicks
               PROVE  Cardinality(Between(emitted, t, t + Second)) <= 2 * MsgPerS
    BY DEF RateWithinTwice, Between
  <2> QED BY GatewayAssumption DEF RateInv
<1> QED BY <1>1, <1>2, RateStep, PTL DEF RateSpec

\* What a node hands to an agent stays the agent's and within bounds, for any agents, keys, quotas,
\* rates and number of handles.
THEOREM BudgetTheorem == KvSpec /\ RateSpec => []AgentWithinBudget
  BY AgentStateTheorem, RateTheorem, PTL DEF AgentWithinBudget

-----------------------------------------------------------------------------
(* The channel to a peer *)

Conn ==
  [up : Seq(Nat), count : Nat, dialler : {"hello", "open", "closed"},
   peer : {"accept", "replied", "open", "closed"}, third : BOOLEAN]

\* A frame is in what the peer read, or on the wire of a connection.
In(f, seen, ls) == f \in Range(seen) \/ \E i \in DOMAIN ls : f \in Range(ls[i].up)

\* No frame is in two places.
Once(seen, ls) ==
  /\ IsInjective(seen)
  /\ \A i \in DOMAIN ls : IsInjective(ls[i].up) /\ Range(seen) \intersect Range(ls[i].up) = {}
  /\ \A i, j \in DOMAIN ls : i # j => Range(ls[i].up) \intersect Range(ls[j].up) = {}

\* What Append, Head and Tail do to the elements of a sequence without repetitions.
LEMMA SequenceElements ==
  ASSUME NEW S, NEW s \in Seq(S)
  PROVE  /\ \A x \in S : Range(Append(s, x)) = Range(s) \union {x}
         /\ \A x \in S : IsInjective(s) /\ x \notin Range(s) => IsInjective(Append(s, x))
         /\ s # <<>> => Head(s) \in S /\ Tail(s) \in Seq(S) /\ Range(s) = Range(Tail(s)) \union {Head(s)}
         /\ s # <<>> /\ IsInjective(s) => IsInjective(Tail(s)) /\ Head(s) \notin Range(Tail(s))
<1>1. ASSUME NEW x \in S
      PROVE  /\ Range(Append(s, x)) = Range(s) \union {x}
             /\ IsInjective(s) /\ x \notin Range(s) => IsInjective(Append(s, x))
  <2> DEFINE g == Append(s, x)
             n == Len(s) + 1
  <2>1. /\ DOMAIN g = 1 .. n /\ g[n] = x /\ DOMAIN s = 1 .. Len(s) /\ n \in 1 .. n
        /\ \A i \in 1 .. Len(s) : g[i] = s[i] /\ i \in 1 .. n
        /\ \A i \in 1 .. n : i \in 1 .. Len(s) \/ i = n
    OBVIOUS
  <2> HIDE DEF g, n
  <2>2. Range(g) = Range(s) \union {x}
    BY <2>1 DEF Range
  <2>3. IsInjective(s) /\ x \notin Range(s) => IsInjective(g)
    BY <2>1 DEF Range, IsInjective
  <2> QED BY <2>2, <2>3 DEF g
<1>2. ASSUME s # <<>>
      PROVE  /\ Head(s) \in S /\ Tail(s) \in Seq(S) /\ Range(s) = Range(Tail(s)) \union {Head(s)}
             /\ IsInjective(s) => IsInjective(Tail(s)) /\ Head(s) \notin Range(Tail(s))
  <2> DEFINE t == Tail(s)
             top == Len(s) - 1
  <2>1. t \in Seq(S) /\ Head(s) \in S /\ Len(s) \in Nat /\ Len(s) > 0
    BY <1>2
  <2>2. /\ DOMAIN t = 1 .. top /\ DOMAIN s = 1 .. Len(s) /\ Head(s) = s[1]
        /\ \A i \in 1 .. top : t[i] = s[i + 1]
    BY <1>2
  <2>3. /\ \A i \in 1 .. top : i + 1 \in 1 .. Len(s) /\ i + 1 # 1
        /\ \A i \in 1 .. Len(s) : i = 1 \/ \E k \in 1 .. top : i = k + 1
        /\ 1 \in 1 .. Len(s)
        /\ \A i, j \in 1 .. top : i + 1 = j + 1 => i = j
    <3>1. \A i \in 1 .. Len(s) : i = 1 \/ (i - 1 \in 1 .. top /\ i = (i - 1) + 1)
      BY <2>1
    <3> QED BY <2>1, <3>1
  <2> HIDE DEF t, top
  <2>4. Range(s) = Range(t) \union {Head(s)}
    <3>1. ASSUME NEW v \in Range(s) PROVE v \in Range(t) \union {Head(s)}
      <4>1. PICK i \in 1 .. Len(s) : v = s[i]
        BY <2>2 DEF Range
      <4> QED BY <2>2, <2>3, <4>1 DEF Range
    <3>2. ASSUME NEW v \in Range(t) \union {Head(s)} PROVE v \in Range(s)
      BY <2>2, <2>3 DEF Range
    <3> QED BY <3>1, <3>2
  <2>5. ASSUME IsInjective(s) PROVE IsInjective(t) /\ Head(s) \notin Range(t)
    <3>1. ASSUME NEW i \in 1 .. top, NEW j \in 1 .. top, t[i] = t[j] PROVE i = j
      <4>1. s[i + 1] = s[j + 1]
        BY <2>2, <3>1
      <4> QED BY <2>2, <2>3, <2>5, <4>1 DEF IsInjective
    <3>2. ASSUME NEW i \in 1 .. top PROVE t[i] # Head(s)
      <4>1. t[i] = s[i + 1] /\ i + 1 # 1 /\ i + 1 \in DOMAIN s /\ 1 \in DOMAIN s
        BY <2>2, <2>3
      <4> QED BY <2>2, <2>5, <4>1 DEF IsInjective
    <3> QED BY <2>2, <3>1, <3>2 DEF IsInjective, Range
  <2> QED BY <2>1, <2>4, <2>5 DEF t
<1> QED BY <1>1, <1>2

\* Taking the first of b to the end of a leaves the two in the same order.
LEMMA TakenOver ==
  ASSUME NEW S, NEW a \in Seq(S), NEW b \in Seq(S), b # <<>>
  PROVE  Append(a, Head(b)) \o Tail(b) = a \o b
  OBVIOUS

LEMMA QueuedBehind ==
  ASSUME NEW S, NEW a \in Seq(S), NEW b \in Seq(S), NEW x \in S
  PROVE  a \o Append(b, x) = Append(a \o b, x)
  OBVIOUS

\* Connections that lose what is on their wire keep the rest apart.
LEMMA OnceLess ==
  ASSUME NEW seen, NEW ls, NEW ls2, DOMAIN ls2 = DOMAIN ls, Once(seen, ls),
         \A i \in DOMAIN ls : ls2[i].up \in {ls[i].up, <<>>}
  PROVE  Once(seen, ls2) /\ \A f : In(f, seen, ls2) => In(f, seen, ls)
<1>1. Range(<<>>) = {} /\ IsInjective(<<>>)
  BY DEF Range, IsInjective
<1>2. \A i \in DOMAIN ls : Range(ls2[i].up) \subseteq Range(ls[i].up) /\ IsInjective(ls2[i].up)
  <2> SUFFICES ASSUME NEW i \in DOMAIN ls
               PROVE  Range(ls2[i].up) \subseteq Range(ls[i].up) /\ IsInjective(ls2[i].up)
    OBVIOUS
  <2>1. IsInjective(ls[i].up)
    BY DEF Once
  <2>2. CASE ls2[i].up = <<>>
    BY <1>1, <2>2
  <2>3. CASE ls2[i].up = ls[i].up
    BY <2>1, <2>3
  <2> QED BY <2>2, <2>3
<1>3. \A f : In(f, seen, ls2) => In(f, seen, ls)
  BY <1>2 DEF In
<1>4. \A i \in DOMAIN ls : Range(seen) \intersect Range(ls2[i].up) = {}
  BY <1>2 DEF Once
<1>5. \A i, j \in DOMAIN ls : i # j => Range(ls2[i].up) \intersect Range(ls2[j].up) = {}
  BY <1>2 DEF Once
<1>6. IsInjective(seen)
  BY DEF Once
<1> QED BY <1>2, <1>3, <1>4, <1>5, <1>6 DEF Once

\* A frame that is nowhere yet may be written.
LEMMA OnceMore ==
  ASSUME NEW seen, NEW ls, NEW ls2, DOMAIN ls2 = DOMAIN ls, Once(seen, ls), NEW x \in Nat, ~In(x, seen, ls),
         NEW k \in DOMAIN ls, ls[k].up \in Seq(Nat), ls2[k].up = Append(ls[k].up, x),
         \A i \in DOMAIN ls \ {k} : ls2[i].up = ls[i].up
  PROVE  Once(seen, ls2) /\ \A f : In(f, seen, ls2) <=> In(f, seen, ls) \/ f = x
<1>1. Range(ls2[k].up) = Range(ls[k].up) \union {x} /\ (x \notin Range(ls[k].up) => IsInjective(ls2[k].up))
  BY SequenceElements DEF Once
<1>2. x \notin Range(ls[k].up) /\ x \notin Range(seen) /\ \A i \in DOMAIN ls : x \notin Range(ls[i].up)
  BY DEF In
<1>3. \A f : In(f, seen, ls2) <=> In(f, seen, ls) \/ f = x
  BY <1>1 DEF In
<1>4. /\ IsInjective(seen)
      /\ \A i \in DOMAIN ls : IsInjective(ls[i].up) /\ Range(seen) \intersect Range(ls[i].up) = {}
      /\ \A i, j \in DOMAIN ls : i # j => Range(ls[i].up) \intersect Range(ls[j].up) = {}
  BY DEF Once
<1> DEFINE A(i) == Range(ls[i].up)
           B(i) == Range(ls2[i].up)
<1>5. /\ \A i \in DOMAIN ls : IsInjective(ls2[i].up) /\ B(i) = IF i = k THEN A(i) \union {x} ELSE A(i)
      /\ \A i \in DOMAIN ls : x \notin A(i)
  BY <1>1, <1>2, <1>4
<1> HIDE DEF A, B
<1>6. \A i \in DOMAIN ls : Range(seen) \intersect A(i) = {} /\ \A j \in DOMAIN ls : i # j => A(i) \intersect A(j) = {}
  BY <1>4 DEF A
<1>7. \A i \in DOMAIN ls : Range(seen) \intersect B(i) = {} /\ \A j \in DOMAIN ls : i # j => B(i) \intersect B(j) = {}
  BY <1>2, <1>5, <1>6
<1>8. Once(seen, ls2)
  BY <1>4, <1>5, <1>7 DEF Once, B
<1> QED BY <1>3, <1>8

\* The peer reads the first frame of a connection.
LEMMA OnceRead ==
  ASSUME NEW seen \in Seq(Nat), NEW ls, NEW ls2, DOMAIN ls2 = DOMAIN ls, Once(seen, ls),
         NEW k \in DOMAIN ls, ls[k].up \in Seq(Nat), ls[k].up # <<>>, ls2[k].up = Tail(ls[k].up),
         \A i \in DOMAIN ls \ {k} : ls2[i].up = ls[i].up
  PROVE  LET new == Append(seen, Head(ls[k].up))
         IN  Once(new, ls2) /\ \A f : In(f, new, ls2) <=> In(f, seen, ls)
<1> DEFINE u == ls[k].up
           x == Head(u)
           new == Append(seen, x)
<1>1. x \in Nat /\ Range(u) = Range(ls2[k].up) \union {x} /\ IsInjective(ls2[k].up) /\ x \notin Range(ls2[k].up)
  BY SequenceElements DEF Once
<1>2. x \notin Range(seen) /\ \A i \in DOMAIN ls \ {k} : x \notin Range(ls[i].up)
  <2> HIDE DEF x
  <2> QED BY <1>1 DEF Once
<1>3. Range(new) = Range(seen) \union {x} /\ IsInjective(new)
  <2> HIDE DEF x
  <2> QED BY <1>1, <1>2, SequenceElements DEF Once
<1> HIDE DEF x, new
<1>4. \A f : In(f, new, ls2) <=> In(f, seen, ls)
  BY <1>1, <1>3 DEF In
<1>5. Once(new, ls2)
  <2> DEFINE A(i) == Range(ls[i].up)
             B(i) == Range(ls2[i].up)
             R == Range(seen)
             Q == Range(new)
  <2>1. /\ \A i \in DOMAIN ls : IsInjective(ls2[i].up)
        /\ \A i \in DOMAIN ls : B(i) \subseteq A(i) /\ x \notin B(i)
        /\ Q = R \union {x}
    BY <1>1, <1>2, <1>3 DEF Once
  <2>2. \A i \in DOMAIN ls : R \intersect A(i) = {} /\ \A j \in DOMAIN ls : i # j => A(i) \intersect A(j) = {}
    BY DEF Once
  <2> HIDE DEF A, B, R, Q
  <2>3. \A i \in DOMAIN ls : Q \intersect B(i) = {} /\ \A j \in DOMAIN ls : i # j => B(i) \intersect B(j) = {}
    BY <2>1, <2>2
  <2> QED BY <1>3, <2>1, <2>3 DEF Once, B, Q
<1> QED BY <1>4, <1>5 DEF new, x

Seen == arrived \o inbound

LinkType ==
  /\ links \in Seq(Conn) /\ inbound \in Seq(Nat) /\ arrived \in Seq(Nat)
  /\ cached \in Nat /\ sending \in Nat /\ nextFrame \in Nat /\ nextFrame > 0 /\ sending < nextFrame

\* What is under way was sent before, and is not the message send_to is busy with.
FramesOld == \A f : In(f, Seen, links) => f \in Nat /\ f # 0 /\ f < nextFrame /\ f # sending

\* A connection in its handshake is the last one, carries nothing, and is for the message at hand.
HelloFirst == \A i \in DOMAIN links : links[i].dialler = "hello" => i = Len(links) /\ sending # 0 /\ links[i].up = <<>>

CachedOpen == cached # 0 => cached \in DOMAIN links /\ links[cached].dialler = "open"

ReportedKept == (\A i \in DOMAIN links : links[i].peer # "closed") => \A f \in reported : In(f, Seen, links)

LinkInv == LinkType /\ Once(Seen, links) /\ FramesOld /\ HelloFirst /\ CachedOpen /\ ReportedKept

\* Replacing one connection.
LEMMA Replaced ==
  ASSUME NEW ls \in Seq(Conn), NEW k \in DOMAIN ls, NEW c \in Conn
  PROVE  LET n == [ls EXCEPT ![k] = c]
         IN  /\ n \in Seq(Conn) /\ DOMAIN n = DOMAIN ls /\ Len(n) = Len(ls) /\ n[k] = c
             /\ \A j \in DOMAIN ls \ {k} : n[j] = ls[j]
  OBVIOUS

\* The fields that the steps change.
LEMMA ConnFields ==
  ASSUME NEW c \in Conn, NEW p \in {"accept", "replied", "open", "closed"}
  PROVE  /\ LET d == [c EXCEPT !.peer = p] IN
              d \in Conn /\ d.up = c.up /\ d.dialler = c.dialler /\ d.peer = p
         /\ LET d == [c EXCEPT !.peer = "closed", !.up = <<>>] IN
              d \in Conn /\ d.up = <<>> /\ d.dialler = c.dialler /\ d.peer = "closed"
         /\ LET d == [c EXCEPT !.count = 0] IN
              d \in Conn /\ d.up = c.up /\ d.dialler = c.dialler /\ d.peer = c.peer
         /\ LET d == [c EXCEPT !.dialler = "closed"] IN
              d \in Conn /\ d.up = c.up /\ d.dialler = "closed" /\ d.peer = c.peer
<1>0. <<>> \in Seq(Nat)
  OBVIOUS
<1>1. LET d == [c EXCEPT !.peer = p] IN
              d \in Conn /\ d.up = c.up /\ d.dialler = c.dialler /\ d.peer = p
  BY DEF Conn
<1>2. LET d == [c EXCEPT !.peer = "closed", !.up = <<>>] IN
              d \in Conn /\ d.up = <<>> /\ d.dialler = c.dialler /\ d.peer = "closed"
  BY <1>0 DEF Conn
<1>3. LET d == [c EXCEPT !.count = 0] IN
              d \in Conn /\ d.up = c.up /\ d.dialler = c.dialler /\ d.peer = c.peer
  BY DEF Conn
<1>4. LET d == [c EXCEPT !.dialler = "closed"] IN
              d \in Conn /\ d.up = c.up /\ d.dialler = "closed" /\ d.peer = c.peer
  BY DEF Conn
<1> QED BY <1>1, <1>2, <1>3, <1>4

LEMMA UpFields ==
  ASSUME NEW c \in Conn, NEW u \in Seq(Nat)
  PROVE  LET d == [c EXCEPT !.up = u] IN
           d \in Conn /\ d.up = u /\ d.dialler = c.dialler /\ d.peer = c.peer
  BY DEF Conn

LEMMA ReadFields ==
  ASSUME NEW c \in Conn, NEW u \in Seq(Nat)
  PROVE  LET d == [c EXCEPT !.up = u, !.count = c.count + 1] IN
           d \in Conn /\ d.up = u /\ d.dialler = c.dialler /\ d.peer = c.peer
<1>1. c.count \in Nat /\ c.count + 1 \in Nat
  BY DEF Conn
<1> QED BY <1>1 DEF Conn

LEMMA OpenFields ==
  ASSUME NEW c \in Conn, NEW u \in Seq(Nat)
  PROVE  LET d == [c EXCEPT !.dialler = "open", !.third = TRUE, !.up = u] IN
           d \in Conn /\ d.up = u /\ d.dialler = "open" /\ d.peer = c.peer
  BY DEF Conn

\* The end of the peer changes a connection: what is on the wire stays, or is lost with it.
LEMMA PeerStep ==
  ASSUME LinkInv, NEW k \in DOMAIN links, NEW c \in Conn, links' = [links EXCEPT ![k] = c],
         c.dialler = links[k].dialler,
         \/ c.up = links[k].up /\ (links[k].peer = "closed" => c.peer = "closed")
         \/ c.up = <<>> /\ c.peer = "closed",
         UNCHANGED <<cached, sending, nextFrame, reported, inbound, arrived>>
  PROVE  LinkInv'
<1>1. /\ links' \in Seq(Conn) /\ DOMAIN links' = DOMAIN links /\ Len(links') = Len(links) /\ links'[k] = c
      /\ \A j \in DOMAIN links \ {k} : links'[j] = links[j]
  BY Replaced DEF LinkInv, LinkType
<1>2. Seen' = Seen
  BY DEF Seen
<1>3. \A i \in DOMAIN links : links'[i].up \in {links[i].up, <<>>}
  BY <1>1
<1>4. Once(Seen', links') /\ \A f : In(f, Seen', links') => In(f, Seen, links)
  BY <1>1, <1>2, <1>3, OnceLess DEF LinkInv
<1>5. LinkType' /\ FramesOld'
  BY <1>1, <1>4 DEF LinkInv, LinkType, FramesOld
<1>6. HelloFirst' /\ CachedOpen'
  BY <1>1 DEF LinkInv, HelloFirst, CachedOpen
<1>7. ReportedKept'
  <2> SUFFICES ASSUME \A i \in DOMAIN links' : links'[i].peer # "closed", NEW f \in reported'
               PROVE  In(f, Seen', links')
    BY DEF ReportedKept
  <2>1. c.peer # "closed" /\ c.up = links[k].up /\ \A i \in DOMAIN links : links[i].peer # "closed"
    BY <1>1
  <2>2. In(f, Seen, links)
    BY <2>1 DEF LinkInv, ReportedKept
  <2>3. \A i \in DOMAIN links : links'[i].up = links[i].up
    BY <1>1, <2>1
  <2> QED BY <1>1, <1>2, <2>2, <2>3 DEF In
<1> QED BY <1>4, <1>5, <1>6, <1>7 DEF LinkInv

\* A message that is nowhere yet is written on a connection and reported.
LEMMA WriteStep ==
  ASSUME LinkInv, NEW k \in DOMAIN links, NEW c \in Conn, links' = [links EXCEPT ![k] = c],
         NEW x \in Nat, x # 0, ~In(x, Seen, links), c.up = Append(links[k].up, x), c.peer = links[k].peer,
         c.dialler = "open", reported' = reported \union {x},
         \A i \in DOMAIN links \ {k} : links[i].dialler # "hello",
         sending' = 0, nextFrame' \in {nextFrame, nextFrame + 1}, x < nextFrame',
         cached' = k, UNCHANGED <<inbound, arrived>>
  PROVE  LinkInv'
<1>0. links[k].up \in Seq(Nat) /\ nextFrame \in Nat /\ nextFrame > 0 /\ nextFrame' \in Nat /\ nextFrame <= nextFrame'
  <2>1. links \in Seq(Conn) /\ nextFrame \in Nat /\ nextFrame > 0
    BY DEF LinkInv, LinkType
  <2>2. links[k] \in Conn
    BY <2>1
  <2>3. nextFrame' \in Nat /\ nextFrame <= nextFrame'
    BY <2>1
  <2> QED BY <2>1, <2>2, <2>3 DEF Conn
<1>1. /\ links' \in Seq(Conn) /\ DOMAIN links' = DOMAIN links /\ Len(links') = Len(links) /\ links'[k] = c
      /\ \A j \in DOMAIN links \ {k} : links'[j] = links[j]
  BY Replaced DEF LinkInv, LinkType
<1>2. Seen' = Seen
  BY DEF Seen
<1>3. Once(Seen', links') /\ \A f : In(f, Seen', links') <=> In(f, Seen, links) \/ f = x
  <2>1. links'[k].up = Append(links[k].up, x) /\ \A i \in DOMAIN links \ {k} : links'[i].up = links[i].up
    BY <1>1
  <2>2. Once(Seen, links)
    BY DEF LinkInv
  <2>3. Once(Seen, links') /\ \A f : In(f, Seen, links') <=> In(f, Seen, links) \/ f = x
    BY ONLY <1>0, <1>1, <2>1, <2>2, OnceMore, k \in DOMAIN links, x \in Nat, ~In(x, Seen, links)
  <2> QED BY <1>2, <2>3
<1>4. LinkType'
  BY <1>0, <1>1 DEF LinkInv, LinkType
<1>5. FramesOld'
  <2> SUFFICES ASSUME NEW f, In(f, Seen', links')
               PROVE  f \in Nat /\ f # 0 /\ f < nextFrame' /\ f # sending'
    BY DEF FramesOld
  <2>1. CASE f = x
    BY <2>1
  <2>2. CASE In(f, Seen, links)
    BY <1>0, <2>2 DEF LinkInv, FramesOld
  <2> QED BY <1>3, <2>1, <2>2
<1>6. HelloFirst'
  BY <1>1 DEF LinkInv, HelloFirst
<1>7. CachedOpen'
  BY <1>1 DEF CachedOpen
<1>8. ReportedKept'
  <2>1. (\A i \in DOMAIN links' : links'[i].peer # "closed") => \A i \in DOMAIN links : links[i].peer # "closed"
    BY <1>1
  <2> QED BY <1>3, <2>1 DEF LinkInv, ReportedKept
<1> QED BY <1>3, <1>4, <1>5, <1>6, <1>7, <1>8 DEF LinkInv

\* Every step of either end keeps the frames apart and the reported ones in sight.
LEMMA LinkStep == LinkInv /\ [LinkNext]_linkvars => LinkInv'
<1> SUFFICES ASSUME LinkInv, [LinkNext]_linkvars PROVE LinkInv'
  OBVIOUS
<1>0. /\ links \in Seq(Conn) /\ (\A i \in DOMAIN links : links[i] \in Conn /\ links[i].up \in Seq(Nat))
      /\ inbound \in Seq(Nat) /\ arrived \in Seq(Nat) /\ cached \in Nat /\ sending \in Nat /\ nextFrame \in Nat
      /\ nextFrame > 0 /\ sending < nextFrame /\ DOMAIN links = 1 .. Len(links) /\ Len(links) \in Nat
  <2>1. /\ links \in Seq(Conn) /\ inbound \in Seq(Nat) /\ arrived \in Seq(Nat)
        /\ cached \in Nat /\ sending \in Nat /\ nextFrame \in Nat /\ nextFrame > 0 /\ sending < nextFrame
    BY DEF LinkInv, LinkType
  <2>2. \A i \in DOMAIN links : links[i] \in Conn
    BY <2>1
  <2>3. \A c \in Conn : c.up \in Seq(Nat)
    BY DEF Conn
  <2> QED BY <2>1, <2>2, <2>3
<1>1. CASE SendCached
  <2> DEFINE c == [links[cached] EXCEPT !.up = IF links[cached].peer = "closed" THEN links[cached].up
                                                 ELSE Append(links[cached].up, nextFrame)]
  <2>1. /\ sending = 0 /\ cached # 0 /\ links' = [links EXCEPT ![cached] = c]
        /\ reported' = reported \union {nextFrame} /\ nextFrame' = nextFrame + 1
        /\ UNCHANGED <<cached, sending, inbound, arrived>>
    BY <1>1 DEF SendCached
  <2>2. cached \in DOMAIN links /\ links[cached].dialler = "open"
    BY <2>1 DEF LinkInv, CachedOpen
  <2>3. ~In(nextFrame, Seen, links) /\ \A i \in DOMAIN links : links[i].dialler # "hello"
    BY <1>0, <2>1 DEF LinkInv, FramesOld, HelloFirst
  <2>4. CASE links[cached].peer # "closed"
    <3>1. Append(links[cached].up, nextFrame) \in Seq(Nat)
      BY <1>0, <2>2
    <3>2. c = [links[cached] EXCEPT !.up = Append(links[cached].up, nextFrame)]
      BY <2>4
    <3>3. c \in Conn /\ c.up = Append(links[cached].up, nextFrame) /\ c.dialler = "open" /\ c.peer = links[cached].peer
      <4> HIDE DEF c
      <4>1. links[cached] \in Conn
        BY <1>0, <2>2
      <4> QED BY <2>2, <3>1, <3>2, <4>1, UpFields
    <3>4. nextFrame # 0 /\ nextFrame < nextFrame + 1
      BY <1>0
    <3> HIDE DEF c
    <3> QED BY <1>0, <2>1, <2>2, <2>3, <3>3, <3>4, WriteStep
  <2>5. CASE links[cached].peer = "closed"
    <3>0. c = [links[cached] EXCEPT !.up = links[cached].up]
      BY <2>5
    <3>1. c \in Conn /\ c.up = links[cached].up /\ c.dialler = "open" /\ c.peer = "closed"
      BY <1>0, <2>2, <2>5, <3>0, UpFields
    <3> HIDE DEF c
    <3>2. /\ links' \in Seq(Conn) /\ DOMAIN links' = DOMAIN links /\ Len(links') = Len(links) /\ links'[cached] = c
          /\ \A j \in DOMAIN links \ {cached} : links'[j] = links[j]
      BY <1>0, <2>1, <2>2, <3>1, Replaced
    <3>3. Seen' = Seen
      BY <2>1 DEF Seen
    <3>4. Once(Seen', links') /\ \A f : In(f, Seen', links') => In(f, Seen, links)
      <4>1. \A i \in DOMAIN links : links'[i].up \in {links[i].up, <<>>}
        BY <3>1, <3>2
      <4> QED BY <3>2, <3>3, <4>1, OnceLess DEF LinkInv
    <3>5. LinkType' /\ FramesOld'
      <4>1. LinkType'
        BY <1>0, <2>1, <3>2 DEF LinkType
      <4>2. FramesOld'
        <5>1. \A f : In(f, Seen', links') => f \in Nat /\ f # 0 /\ f < nextFrame /\ f # sending
          BY <3>4 DEF LinkInv, FramesOld
        <5>2. \A f : In(f, Seen', links') => f < nextFrame + 1
          BY <1>0, <5>1
        <5> QED BY <2>1, <5>1, <5>2 DEF FramesOld
      <4> QED BY <4>1, <4>2
    <3>6. HelloFirst' /\ CachedOpen'
      BY <2>1, <2>2, <2>3, <3>1, <3>2 DEF HelloFirst, CachedOpen
    <3>7. ReportedKept'
      BY <2>2, <3>1, <3>2 DEF ReportedKept
    <3> QED BY <3>4, <3>5, <3>6, <3>7 DEF LinkInv
  <2> QED BY <2>4, <2>5
<1>2. ASSUME NEW k \in DOMAIN links, links' = [links EXCEPT ![k] = Breaks(links[k])],
             \A i \in DOMAIN links \ {k} : links[i].dialler # "hello",
             cached' \in {0, cached}, cached = k => cached' = 0,
             \/ sending' = 0 /\ nextFrame' = nextFrame
             \/ sending' = nextFrame /\ nextFrame' = nextFrame + 1,
             UNCHANGED <<reported, inbound, arrived>>
      PROVE  LinkInv'
  <2> DEFINE c == Breaks(links[k])
  <2>1. c \in Conn /\ c.up = links[k].up /\ c.dialler = "closed" /\ c.peer = links[k].peer
    BY <1>0, ConnFields DEF Breaks
  <2> HIDE DEF c
  <2>2. /\ links' \in Seq(Conn) /\ DOMAIN links' = DOMAIN links /\ Len(links') = Len(links) /\ links'[k] = c
        /\ \A j \in DOMAIN links \ {k} : links'[j] = links[j]
    BY <1>0, <1>2, <2>1, Replaced DEF c
  <2>3. Seen' = Seen /\ \A i \in DOMAIN links : links'[i].up = links[i].up
    BY <1>2, <2>1, <2>2 DEF Seen
  <2>4. Once(Seen', links')
    BY <2>2, <2>3, OnceLess DEF LinkInv
  <2>5. \A f : In(f, Seen', links') <=> In(f, Seen, links)
    BY <2>2, <2>3 DEF In
  <2>6. LinkType'
    BY <1>0, <1>2, <2>2 DEF LinkType
  <2>7. FramesOld'
    BY <1>0, <1>2, <2>5 DEF LinkInv, FramesOld
  <2>8. HelloFirst' /\ CachedOpen'
    BY <1>2, <2>1, <2>2 DEF LinkInv, HelloFirst, CachedOpen
  <2>9. ReportedKept'
    <3>1. (\A i \in DOMAIN links' : links'[i].peer # "closed") => \A i \in DOMAIN links : links[i].peer # "closed"
      BY <2>1, <2>2
    <3> QED BY <1>2, <2>5, <3>1 DEF LinkInv, ReportedKept
  <2> QED BY <2>4, <2>6, <2>7, <2>8, <2>9 DEF LinkInv
<1>3. CASE CachedFails
  <2>1. cached \in DOMAIN links /\ \A i \in DOMAIN links : links[i].dialler # "hello"
    BY <1>3 DEF CachedFails, LinkInv, CachedOpen, HelloFirst
  <2> QED BY <1>2, <1>3, <2>1 DEF CachedFails
<1>4. ASSUME UNCHANGED <<links, cached, reported, inbound, arrived>>,
             \A i \in DOMAIN links : links[i].dialler = "hello" => sending' # 0,
             \/ sending' = 0 /\ nextFrame' = nextFrame
             \/ sending' = nextFrame /\ nextFrame' = nextFrame + 1
             \/ sending' = sending /\ nextFrame' = nextFrame
      PROVE  LinkInv'
  <2>1. Seen' = Seen
    BY <1>4 DEF Seen
  <2>2. LinkType'
    BY <1>0, <1>4 DEF LinkType
  <2>3. FramesOld'
    BY <1>0, <1>4, <2>1 DEF LinkInv, FramesOld
  <2>4. HelloFirst'
    BY <1>4 DEF LinkInv, HelloFirst
  <2> QED BY <1>4, <2>1, <2>2, <2>3, <2>4 DEF LinkInv, CachedOpen, ReportedKept
<1>5. CASE StartSend
  <2>1. \A i \in DOMAIN links : links[i].dialler # "hello"
    BY <1>5 DEF StartSend, LinkInv, HelloFirst
  <2> QED BY <1>4, <1>5, <2>1 DEF StartSend
<1>6. CASE Dial
  <2>1. sending # 0 /\ links' = Append(links, Dialled) /\ UNCHANGED <<cached, sending, nextFrame, reported, inbound, arrived>>
    BY <1>6 DEF Dial
  <2>2. \A i \in DOMAIN links : links[i].dialler # "hello"
    BY <1>0, <1>6 DEF Dial, Dialling, Current, LinkInv, HelloFirst
  <2>3. Dialled \in Conn /\ Dialled.up = <<>> /\ Dialled.dialler = "hello" /\ Dialled.peer # "closed"
    BY DEF Dialled, Conn
  <2> DEFINE n == Len(links) + 1
  <2>4. /\ links' \in Seq(Conn) /\ Len(links') = n /\ DOMAIN links' = 1 .. n /\ links'[n] = Dialled
        /\ \A i \in DOMAIN links : links'[i] = links[i] /\ i \in 1 .. n /\ i # n
        /\ \A i \in 1 .. n : i \in DOMAIN links \/ i = n
    BY <1>0, <2>1, <2>3
  <2>5. Seen' = Seen /\ n \in Nat /\ n \in 1 .. n
    BY <1>0, <2>1 DEF Seen
  <2> HIDE DEF n
  <2>6. Range(<<>>) = {} /\ IsInjective(<<>>)
    BY DEF Range, IsInjective
  <2>7. Range(links'[n].up) = {} /\ IsInjective(links'[n].up)
    BY <2>3, <2>4, <2>6
  <2>8. \A f : In(f, Seen', links') <=> In(f, Seen, links)
    BY <2>4, <2>5, <2>7 DEF In
  <2>9. Once(Seen', links')
    <3>1. \A i \in 1 .. n : IsInjective(links'[i].up) /\ Range(Seen) \intersect Range(links'[i].up) = {}
      BY <2>4, <2>7 DEF LinkInv, Once
    <3>2. \A i, j \in 1 .. n : i # j => Range(links'[i].up) \intersect Range(links'[j].up) = {}
      BY <2>4, <2>7 DEF LinkInv, Once
    <3> QED BY <2>4, <2>5, <3>1, <3>2 DEF LinkInv, Once
  <2>10. LinkType' /\ FramesOld'
    BY <2>1, <2>4, <2>8 DEF LinkInv, LinkType, FramesOld
  <2>11. HelloFirst' /\ CachedOpen'
    BY <2>1, <2>2, <2>3, <2>4 DEF LinkInv, HelloFirst, CachedOpen
  <2>12. ReportedKept'
    <3>1. (\A i \in DOMAIN links' : links'[i].peer # "closed") => \A i \in DOMAIN links : links[i].peer # "closed"
      BY <2>4
    <3> QED BY <2>1, <2>8, <3>1 DEF LinkInv, ReportedKept
  <2> QED BY <2>9, <2>10, <2>11, <2>12 DEF LinkInv
<1>7. CASE AcceptReplies
  <2> DEFINE c == [links[Current] EXCEPT !.peer = "replied"]
  <2>1. /\ Current \in DOMAIN links /\ links[Current].peer = "accept" /\ links' = [links EXCEPT ![Current] = c]
        /\ UNCHANGED <<cached, sending, nextFrame, reported, inbound, arrived>>
    BY <1>0, <1>7 DEF AcceptReplies, Dialling, Current
  <2>2. c \in Conn /\ c.up = links[Current].up /\ c.dialler = links[Current].dialler /\ c.peer = "replied"
    BY <1>0, <2>1, ConnFields
  <2> HIDE DEF c
  <2> QED BY <2>1, <2>2, PeerStep
<1>8. CASE ConnectSends
  <2> DEFINE c == [links[Current] EXCEPT !.dialler = "open", !.third = TRUE, !.up = <<sending>>]
  <2>1. /\ Current \in DOMAIN links /\ links[Current].dialler = "hello" /\ links' = [links EXCEPT ![Current] = c]
        /\ cached' = Current /\ reported' = reported \union {sending} /\ sending' = 0
        /\ UNCHANGED <<nextFrame, inbound, arrived>>
    BY <1>0, <1>8 DEF ConnectSends, Dialling, Current
  <2>2. /\ sending # 0 /\ links[Current].up = <<>> /\ ~In(sending, Seen, links)
        /\ \A i \in DOMAIN links \ {Current} : links[i].dialler # "hello"
    BY <2>1 DEF LinkInv, HelloFirst, FramesOld, Current
  <2>3. <<sending>> \in Seq(Nat) /\ <<sending>> = Append(<<>>, sending)
    BY <1>0
  <2>4. c \in Conn /\ c.up = Append(links[Current].up, sending) /\ c.dialler = "open" /\ c.peer = links[Current].peer
    BY <1>0, <2>1, <2>2, <2>3, OpenFields
  <2>5. sending # 0 /\ sending < nextFrame' /\ nextFrame' = nextFrame
    BY <1>0, <2>1, <2>2
  <2> HIDE DEF c
  <2> QED BY <1>0, <2>1, <2>2, <2>4, <2>5, WriteStep
<1>9. CASE SendGivesUp
  <2>1. CASE Dialling
    <3>1. /\ Current \in DOMAIN links /\ links[Current].dialler = "hello"
          /\ \A i \in DOMAIN links \ {Current} : links[i].dialler # "hello"
      BY <1>0, <2>1 DEF Dialling, Current, LinkInv, HelloFirst
    <3>2. cached # Current
      BY <1>0, <3>1 DEF LinkInv, CachedOpen
    <3> QED BY <1>2, <1>9, <2>1, <3>1, <3>2 DEF SendGivesUp
  <2>2. CASE ~Dialling
    <3>1. \A i \in DOMAIN links : links[i].dialler # "hello"
      BY <1>0, <2>2 DEF Dialling, Current, LinkInv, HelloFirst
    <3> QED BY <1>4, <1>9, <2>2, <3>1 DEF SendGivesUp
  <2> QED BY <2>1, <2>2
<1>10. CASE TakeInbound
  <2>1. Seen' = Seen /\ inbound' \in Seq(Nat) /\ arrived' \in Seq(Nat)
    <3>1. inbound # <<>> /\ arrived' = Append(arrived, Head(inbound)) /\ inbound' = Tail(inbound)
      BY <1>10 DEF TakeInbound
    <3>2. Head(inbound) \in Nat /\ Tail(inbound) \in Seq(Nat)
      BY <1>0, <3>1
    <3>3. Append(arrived, Head(inbound)) \o Tail(inbound) = arrived \o inbound
      BY <1>0, <3>1, TakenOver
    <3>4. Append(arrived, Head(inbound)) \in Seq(Nat)
      BY <1>0, <3>2
    <3> QED BY <3>1, <3>2, <3>3, <3>4 DEF Seen
  <2> QED BY <1>10, <2>1 DEF TakeInbound, LinkInv, LinkType, FramesOld, HelloFirst, CachedOpen, ReportedKept
<1>11. ASSUME NEW k \in 1 .. Len(links), AcceptDone(k) PROVE LinkInv'
  <2> DEFINE c == [links[k] EXCEPT !.peer = "open"]
  <2>1. k \in DOMAIN links /\ links[k].peer = "replied" /\ links' = [links EXCEPT ![k] = c]
        /\ UNCHANGED <<cached, sending, nextFrame, reported, inbound, arrived>>
    BY <1>0, <1>11 DEF AcceptDone
  <2>2. c \in Conn /\ c.up = links[k].up /\ c.dialler = links[k].dialler /\ c.peer = "open"
    BY <1>0, <2>1, ConnFields
  <2> HIDE DEF c
  <2> QED BY <2>1, <2>2, PeerStep
<1>12. ASSUME NEW k \in 1 .. Len(links), PeerCloses(k) \/ PeerFloods(k) PROVE LinkInv'
  <2> DEFINE c == [links[k] EXCEPT !.peer = "closed", !.up = <<>>]
  <2>1. k \in DOMAIN links /\ links' = [links EXCEPT ![k] = c]
        /\ UNCHANGED <<cached, sending, nextFrame, reported, inbound, arrived>>
    BY <1>0, <1>12 DEF PeerCloses, PeerFloods
  <2>2. c \in Conn /\ c.up = <<>> /\ c.dialler = links[k].dialler /\ c.peer = "closed"
    BY <1>0, <2>1, ConnFields
  <2> HIDE DEF c
  <2> QED BY <2>1, <2>2, PeerStep
<1>13. ASSUME NEW k \in 1 .. Len(links), WindowPasses(k) PROVE LinkInv'
  <2> DEFINE c == [links[k] EXCEPT !.count = 0]
  <2>1. k \in DOMAIN links /\ links' = [links EXCEPT ![k] = c]
        /\ UNCHANGED <<cached, sending, nextFrame, reported, inbound, arrived>>
    BY <1>0, <1>13 DEF WindowPasses
  <2>2. c \in Conn /\ c.up = links[k].up /\ c.dialler = links[k].dialler /\ c.peer = links[k].peer
    BY <1>0, <2>1, ConnFields
  <2> HIDE DEF c
  <2> QED BY <2>1, <2>2, PeerStep
<1>14. ASSUME NEW k \in 1 .. Len(links), PeerReads(k) PROVE LinkInv'
  <2> DEFINE u == links[k].up
             c == [links[k] EXCEPT !.up = Tail(u), !.count = links[k].count + 1]
  <2>1. /\ k \in DOMAIN links /\ u # <<>> /\ links' = [links EXCEPT ![k] = c] /\ links[k].peer = "open"
        /\ inbound' = Append(inbound, Head(u)) /\ UNCHANGED <<cached, sending, nextFrame, reported, arrived>>
    BY <1>0, <1>14 DEF PeerReads
  <2>2. u \in Seq(Nat) /\ Tail(u) \in Seq(Nat) /\ Head(u) \in Nat
    BY <1>0, <2>1
  <2>3. c \in Conn /\ c.up = Tail(u) /\ c.dialler = links[k].dialler /\ c.peer = links[k].peer
    BY <1>0, <2>1, <2>2, ReadFields
  <2> HIDE DEF c
  <2>4. /\ links' \in Seq(Conn) /\ DOMAIN links' = DOMAIN links /\ Len(links') = Len(links) /\ links'[k] = c
        /\ \A j \in DOMAIN links \ {k} : links'[j] = links[j]
    BY <1>0, <2>1, <2>3, Replaced
  <2>5. Seen' = Append(Seen, Head(u)) /\ Seen \in Seq(Nat) /\ inbound' \in Seq(Nat)
    <3> HIDE DEF u
    <3>1. ASSUME NEW x \in Nat
          PROVE  /\ arrived \o Append(inbound, x) = Append(arrived \o inbound, x)
                 /\ arrived \o inbound \in Seq(Nat) /\ Append(inbound, x) \in Seq(Nat)
      BY <1>0, QueuedBehind
    <3>2. Seen' = arrived \o Append(inbound, Head(u))
      BY <2>1 DEF Seen
    <3> QED BY <2>1, <2>2, <3>1, <3>2 DEF Seen
  <2>6. Once(Seen', links') /\ \A f : In(f, Seen', links') <=> In(f, Seen, links)
    <3>1. links'[k].up = Tail(links[k].up) /\ \A i \in DOMAIN links \ {k} : links'[i].up = links[i].up
      BY <2>3, <2>4
    <3>2. Once(Seen, links)
      BY DEF LinkInv
    <3> QED BY <2>1, <2>2, <2>4, <2>5, <3>1, <3>2, OnceRead
  <2>7. LinkType' /\ FramesOld'
    BY <2>1, <2>4, <2>5, <2>6 DEF LinkInv, LinkType, FramesOld
  <2>8. HelloFirst' /\ CachedOpen'
    BY <2>1, <2>3, <2>4 DEF LinkInv, HelloFirst, CachedOpen
  <2>9. ReportedKept'
    <3>1. (\A i \in DOMAIN links' : links'[i].peer # "closed") => \A i \in DOMAIN links : links[i].peer # "closed"
      BY <2>3, <2>4
    <3> QED BY <2>1, <2>6, <3>1 DEF LinkInv, ReportedKept
  <2> QED BY <2>6, <2>7, <2>8, <2>9 DEF LinkInv
<1>15. CASE UNCHANGED linkvars
  <2>1. Seen' = Seen
    BY <1>15 DEF linkvars, Seen
  <2> QED BY <1>15, <2>1 DEF linkvars, LinkInv, LinkType, FramesOld, HelloFirst, CachedOpen, ReportedKept
<1> QED BY <1>1, <1>3, <1>5, <1>6, <1>7, <1>8, <1>9, <1>10, <1>11, <1>12, <1>13, <1>14, <1>15 DEF LinkNext

\* Between two nodes a message is never doubled, and one that was reported as sent is lost only when
\* the peer closes a connection, for any number of messages, connections and limits, wherever a
\* connection breaks (send_to, connect, accept, handle_conn).
THEOREM LinkTheorem == LinkSpec => []LinkSound
<1>1. LinkInit => LinkInv
  <2> SUFFICES ASSUME LinkInit PROVE LinkInv
    OBVIOUS
  <2>1. links = <<>> /\ cached = 0 /\ sending = 0 /\ nextFrame = 1 /\ reported = {} /\ inbound = <<>> /\ arrived = <<>>
    BY DEF LinkInit
  <2>2. Seen = <<>>
    BY <2>1 DEF Seen
  <2>3. Range(<<>>) = {} /\ IsInjective(<<>>)
    BY DEF Range, IsInjective
  <2>4. LinkType /\ HelloFirst /\ CachedOpen /\ ReportedKept
    BY <2>1 DEF LinkType, HelloFirst, CachedOpen, ReportedKept
  <2>5. Once(Seen, links) /\ FramesOld
    BY <2>1, <2>2, <2>3 DEF Once, FramesOld, In
  <2> QED BY <2>4, <2>5 DEF LinkInv
<1>2. LinkInv => LinkSound
  <2> SUFFICES ASSUME LinkInv PROVE LinkSound
    OBVIOUS
  <2>1. DeliveredOnce
    BY DEF LinkInv, Once, DeliveredOnce, Seen
  <2>2. LostOnlyWithLink
    BY DEF LinkInv, ReportedKept, In, LostOnlyWithLink, Seen
  <2> QED BY <2>1, <2>2 DEF LinkSound
<1> QED BY <1>1, <1>2, LinkStep, PTL DEF LinkSpec

-----------------------------------------------------------------------------
(* A negotiation: one protocol machine, its owner and its peers *)

\* Where a message can take an auction: nowhere from its end but to an end.
EnglishMove(s, t) ==
    \/ t \in {"failed", "cancelled"}
    \/ s = "not_started" /\ t = "announced"
    \/ s \in {"announced", "bidding"} /\ t \in {"bidding", "completed"}

\* The rows and wildcards of the English auction's table make only these moves.
LEMMA EnglishTargets ==
  ASSUME NEW c, NEW s, NEW perf, NEW t \in Targets("EnglishAuction", c, s, perf)
  PROVE  EnglishMove(s, t)
<1>1. Rows("EnglishAuction", c) = EnglishRows
  BY DEF Rows
<1>2. ASSUME NEW r \in EnglishRows
      PROVE  EnglishMove(r[1], r[3])
  BY DEF EnglishRows, Row, EnglishMove
<1>3. ASSUME NEW w \in Wildcards["EnglishAuction"]
      PROVE  w[2] \in {"failed", "cancelled"}
  BY DEF Wildcards
<1> QED BY <1>1, <1>2, <1>3 DEF Targets, EnglishMove

\* The same of a Dutch auction, with what a proposal may do.
DutchMove(s, perf, t) ==
    \/ t \in {"unsold", "cancelled"} /\ perf # "Propose"
    \/ s \in {"not_started", "descending"} /\ perf = "Cfp" /\ t = "descending"
    \/ s = "descending" /\ perf = "Propose" /\ t = "bid_received"
    \/ s \in {"bid_received", "sold"} /\ perf # "Propose" /\ t = "sold"

\* The same of the Dutch auction's table: a proposal leads to bid_received and nowhere else.
LEMMA DutchTargets ==
  ASSUME NEW c, NEW s, NEW perf, NEW t \in Targets("DutchAuction", c, s, perf)
  PROVE  DutchMove(s, perf, t)
<1>1. Rows("DutchAuction", c) = DutchRows
  BY DEF Rows
<1>2. ASSUME NEW r \in DutchRows
      PROVE  DutchMove(r[1], r[2], r[3])
  BY DEF DutchRows, Row, DutchMove
<1>3. ASSUME NEW w \in Wildcards["DutchAuction"]
      PROVE  w[2] \in {"unsold", "cancelled"} /\ w[1] # "Propose"
  BY DEF Wildcards
<1> QED BY <1>1, <1>2, <1>3 DEF Targets, DutchMove

\* And of an iterated contract net.
IteratedMove(s, perf, t) ==
    \/ t = "cancelled"
    \/ s = "not_started" /\ perf = "Cfp" /\ t = "cfp_sent"
    \/ s \in {"revising", "evaluating"} /\ perf = "Cfp" /\ t = "cfp_sent"
    \/ s = "cfp_sent" /\ perf # "Cfp" /\ t = "cfp_sent"
    \/ s \in {"cfp_sent", "evaluating"} /\ perf \notin {"Cfp", "Propose"}
         /\ t \in {"accepted", "revising", "no_agreement"}
    \/ s \in {"accepted", "waiting_result"} /\ perf \notin {"Cfp", "Propose"}
         /\ t \in {"completed", "failed"}

\* The same of the iterated contract net's table: revising or evaluating reopens with a Cfp only.
LEMMA IteratedTargets ==
  ASSUME NEW c, NEW s, NEW perf, NEW t \in Targets("IteratedContractNet", c, s, perf)
  PROVE  IteratedMove(s, perf, t) /\ (t = "cancelled" => perf = "Cancel")
<1>1. Rows("IteratedContractNet", c) = IteratedRows(c)
  BY DEF Rows
<1>2. ASSUME NEW r \in IteratedRows(c)
      PROVE  IteratedMove(r[1], r[2], r[3]) /\ r[3] # "cancelled"
  BY DEF IteratedRows, Row, IteratedMove
<1>3. ASSUME NEW w \in Wildcards["IteratedContractNet"]
      PROVE  w[2] = "cancelled" /\ w[1] = "Cancel"
  BY DEF Wildcards
<1> QED BY <1>1, <1>2, <1>3 DEF Targets, IteratedMove

\* Whatever the protocol, no row or wildcard of its table leads out of the terminal states.
LEMMA EndsStay ==
  ASSUME NEW p \in Kinds, NEW c, NEW s \in Ends[p].good \cup Ends[p].bad, NEW perf,
         NEW t \in Targets(p, c, s, perf)
  PROVE  t \in Ends[p].good \cup Ends[p].bad
<1> DEFINE E == Ends[p].good \cup Ends[p].bad
<1>1. ASSUME NEW r \in Rows(p, c), r[1] \in E
      PROVE  r[3] \in E
  <2>1. CASE p = "Request"
    BY <1>1, <2>1 DEF Rows, RequestRows, Row, Ends, RequestEnds
  <2>2. CASE p = "Query"
    BY <1>1, <2>2 DEF Rows, QueryRows, Row, Ends, QueryEnds
  <2>3. CASE p = "ContractNet"
    BY <1>1, <2>3 DEF Rows, ContractNetRows, Row, Ends, ContractNetEnds
  <2>4. CASE p = "Subscribe"
    BY <1>1, <2>4 DEF Rows, SubscribeRows, Row, Ends, SubscribeEnds
  <2>5. CASE p = "Propose"
    BY <1>1, <2>5 DEF Rows, ProposeRows, Row, Ends, ProposeEnds
  <2>6. CASE p = "EnglishAuction"
    BY <1>1, <2>6 DEF Rows, EnglishRows, Row, Ends, EnglishEnds
  <2>7. CASE p = "DutchAuction"
    BY <1>1, <2>7 DEF Rows, DutchRows, Row, Ends, DutchEnds
  <2>8. CASE p = "IteratedContractNet"
    BY <1>1, <2>8 DEF Rows, IteratedRows, Row, Ends, IteratedEnds
  <2>9. CASE p = "Brokering"
    BY <1>1, <2>9 DEF Rows, BrokeringRows, Row, Ends, BrokeringEnds
  <2>10. CASE p = "Recruiting"
    BY <1>1, <2>10 DEF Rows, RecruitingRows, Row, Ends, RecruitingEnds
  <2> QED BY <2>1, <2>2, <2>3, <2>4, <2>5, <2>6, <2>7, <2>8, <2>9, <2>10 DEF Kinds
<1>2. ASSUME NEW w \in Wildcards[p]
      PROVE  w[2] \in E
  <2>1. CASE p = "Request"
    BY <2>1 DEF Wildcards, Ends, RequestEnds
  <2>2. CASE p \in {"Query", "ContractNet"}
    BY <2>2 DEF Wildcards
  <2>4. CASE p = "Subscribe"
    BY <2>4 DEF Wildcards, Ends, SubscribeEnds
  <2>5. CASE p = "Propose"
    BY <2>5 DEF Wildcards, Ends, ProposeEnds
  <2>6. CASE p = "EnglishAuction"
    BY <2>6 DEF Wildcards, Ends, EnglishEnds
  <2>7. CASE p = "DutchAuction"
    BY <2>7 DEF Wildcards, Ends, DutchEnds
  <2>8. CASE p = "IteratedContractNet"
    BY <2>8 DEF Wildcards, Ends, IteratedEnds
  <2>9. CASE p = "Brokering"
    BY <2>9 DEF Wildcards, Ends, BrokeringEnds
  <2>10. CASE p = "Recruiting"
    BY <2>10 DEF Wildcards, Ends, RecruitingEnds
  <2> QED BY <2>1, <2>2, <2>4, <2>5, <2>6, <2>7, <2>8, <2>9, <2>10 DEF Kinds
<1> QED BY <1>1, <1>2 DEF Targets

Bids == [bidder : Agents, amount : Nat]

\* What holds of an English auction: every bid tops the one before by the increment, the current bid
\* is the last, and a winner is its bidder.
EnglishOK(x) ==
  /\ {"proto", "state", "hist", "parts", "start", "inc", "reserve", "current", "bids", "bidders",
      "winner"} \subseteq DOMAIN x
  /\ x.start \in Nat /\ x.inc \in Nat
  /\ x.reserve # None => x.reserve[1] \in Nat
  /\ x.bids \in Seq(Bids)
  /\ x.bids = <<>> => x.current = None
  /\ x.bids # <<>> => /\ x.current = Some(x.bids[Len(x.bids)]) /\ x.bids[1].amount >= x.start
                      /\ x.state # "not_started"
  /\ \A i \in 1 .. Len(x.bids) - 1 : x.bids[i + 1].amount >= x.bids[i].amount + x.inc
  /\ x.winner # None =>
       /\ x.state \in {"completed", "failed", "cancelled"}
       /\ x.bids # <<>> /\ x.winner = Some(x.bids[Len(x.bids)].bidder)
       /\ x.reserve # None => x.bids[Len(x.bids)].amount >= x.reserve[1]

\* Of a Dutch auction: the price stays above the reserve if it began there, and there is a sale only
\* to a winner, at the last price.
DutchOK(x) ==
  /\ {"proto", "state", "hist", "parts", "start", "reserve", "price", "dec", "round", "prices",
      "winner", "sale"} \subseteq DOMAIN x
  /\ x.start \in Nat /\ x.reserve \in Nat /\ x.dec \in Nat /\ x.price \in Int
  /\ x.start >= x.reserve => x.price >= x.reserve
  /\ x.prices \in Seq(Int)
  /\ x.prices # <<>> => x.prices[Len(x.prices)] = x.price
  /\ x.winner # None => x.state \notin {"not_started", "descending"}
  /\ x.sale # None => /\ x.sale = Some(x.price) /\ x.winner # None
                      /\ x.state \notin {"not_started", "descending", "bid_received"}

Archived == [round : Nat, proposals : SUBSET Agents]

\* Of an iterated contract net: the rounds archived are earlier ones, and the contractor proposed.
IteratedOK(x) ==
  /\ {"proto", "state", "hist", "parts", "round", "max", "rounds", "proposals", "selected",
      "result"} \subseteq DOMAIN x
  /\ x.round \in Nat /\ x.max \in Nat /\ x.proposals \in SUBSET Agents
  /\ x.rounds \in Seq(Archived)
  /\ x.state = "not_started" => x.round = 0 /\ x.proposals = {} /\ x.rounds = <<>>
  /\ \A i \in 1 .. Len(x.rounds) :
       /\ x.rounds[i].round < x.round /\ x.rounds[i].proposals # {}
       /\ i > 1 => x.rounds[i - 1].round < x.rounds[i].round
  /\ x.selected # None =>
       /\ x.selected[1] \in x.proposals
       /\ x.state \notin {"not_started", "cfp_sent", "evaluating", "revising"}

\* The inductive invariant of a machine in its owner's hands.
MachineOK(x) ==
  /\ {"proto", "state"} \subseteq DOMAIN x
  /\ x.proto \in Kinds
  /\ x.proto = "EnglishAuction" => EnglishOK(x)
  /\ x.proto = "DutchAuction" => DutchOK(x)
  /\ x.proto = "IteratedContractNet" => IteratedOK(x)

\* EnglishAuction::new_as_auctioneer and new make a machine with the invariant.
LEMMA NewEnglishOK ==
  ASSUME NEW s \in Nat, NEW i \in Nat, NEW r \in {None} \cup {Some(x) : x \in Nat}
  PROVE  NewEnglish(s, i, r).proto = "EnglishAuction" /\ EnglishOK(NewEnglish(s, i, r))
<1> DEFINE x == NewEnglish(s, i, r)
<1>1. /\ DOMAIN x = {"proto", "state", "hist", "parts", "start", "inc", "reserve", "current",
                     "bids", "bidders", "winner"}
      /\ x.proto = "EnglishAuction" /\ x.state = "not_started" /\ x.start = s /\ x.inc = i
      /\ x.reserve = r /\ x.current = None /\ x.bids = <<>> /\ x.winner = None
  BY DEF NewEnglish, Base, Over
<1>2. r # None => r[1] \in Nat
  BY DEF None, Some
<1> HIDE DEF x
<1>3. EnglishOK(x)
  BY <1>1, <1>2 DEF EnglishOK
<1> QED BY <1>1, <1>3 DEF x

\* So do the constructors of the Dutch auction, whatever the order of price and reserve.
LEMMA NewDutchOK ==
  ASSUME NEW s \in Nat, NEW r \in Nat, NEW d \in Nat
  PROVE  NewDutch(s, r, d).proto = "DutchAuction" /\ DutchOK(NewDutch(s, r, d))
<1> DEFINE x == NewDutch(s, r, d)
<1>1. /\ DOMAIN x = {"proto", "state", "hist", "parts", "start", "reserve", "price", "dec",
                     "round", "prices", "winner", "sale"}
      /\ x.proto = "DutchAuction" /\ x.state = "not_started" /\ x.start = s /\ x.reserve = r
      /\ x.price = s /\ x.dec = d /\ x.prices = <<>> /\ x.winner = None /\ x.sale = None
  BY DEF NewDutch, Base, Over
<1> HIDE DEF x
<1>3. DutchOK(x)
  BY <1>1 DEF DutchOK
<1> QED BY <1>1, <1>3 DEF x

\* So does the initiator of an iterated contract net.
LEMMA NewIteratedOK ==
  ASSUME NEW n \in Nat
  PROVE  NewIterated(n).proto = "IteratedContractNet" /\ IteratedOK(NewIterated(n))
<1> DEFINE x == NewIterated(n)
<1>1. /\ DOMAIN x = {"proto", "state", "hist", "parts", "round", "max", "rounds", "proposals",
                     "selected", "result"}
      /\ x.proto = "IteratedContractNet" /\ x.state = "not_started" /\ x.round = 0
      /\ x.max = n /\ x.rounds = <<>> /\ x.proposals = {} /\ x.selected = None
  BY DEF NewIterated, Base, Over
<1> HIDE DEF x
<1>3. IteratedOK(x)
  BY <1>1 DEF IteratedOK
<1> QED BY <1>1, <1>3 DEF x

\* The machines of the other seven protocols carry nothing the invariant speaks of but their state.
LEMMA OtherNewOK ==
  ASSUME NEW x, \/ x \in {NewRequest, NewQuery, NewContractNet, NewSubscribe, NewPropose}
                \/ \E r : x = NewBrokering(r)
                \/ \E n, s : x = NewRecruiting(n, s)
  PROVE  MachineOK(x)
<1>1. CASE x = NewRequest
  BY <1>1 DEF MachineOK, NewRequest, Base, Over, Kinds
<1>2. CASE x = NewQuery
  BY <1>2 DEF MachineOK, NewQuery, Base, Over, Kinds
<1>3. CASE x = NewContractNet
  BY <1>3 DEF MachineOK, NewContractNet, Base, Over, Kinds
<1>4. CASE x = NewSubscribe
  BY <1>4 DEF MachineOK, NewSubscribe, Base, Over, Kinds
<1>5. CASE x = NewPropose
  BY <1>5 DEF MachineOK, NewPropose, Base, Over, Kinds
<1>6. CASE \E r : x = NewBrokering(r)
  <2>1. PICK r : x = NewBrokering(r)
    BY <1>6
  <2> QED BY <2>1 DEF MachineOK, NewBrokering, Base, Over, Kinds
<1>7. CASE \E n, s : x = NewRecruiting(n, s)
  <2>1. PICK n, s : x = NewRecruiting(n, s)
    BY <1>7
  <2> QED BY <2>1 DEF MachineOK, NewRecruiting, Base, Over, Kinds
<1> QED BY <1>1, <1>2, <1>3, <1>4, <1>5, <1>6, <1>7

\* Whatever constructor an owner calls, its machine starts with the invariant.
LEMMA OpeningsOK ==
  ASSUME NEW x \in Openings
  PROVE  MachineOK(x)
<1>1. x \in Constructed /\ Amounts \subseteq Nat
  BY NegotiationAssumption
<1>2. CASE x \in {NewRequest, NewQuery, NewContractNet, NewSubscribe, NewPropose}
  BY <1>2, OtherNewOK
<1>3. ASSUME NEW s \in Amounts, NEW i \in Amounts, NEW r \in Limits, x = NewEnglish(s, i, r)
      PROVE  MachineOK(x)
  <2>1. s \in Nat /\ i \in Nat /\ r \in {None} \cup {Some(v) : v \in Nat}
    BY <1>1 DEF Limits
  <2>2. x.proto = "EnglishAuction" /\ EnglishOK(x)
    BY <1>3, <2>1, NewEnglishOK
  <2> QED BY <2>2 DEF MachineOK, EnglishOK, Kinds
<1>4. ASSUME NEW s \in Amounts, NEW r \in Amounts, NEW d \in Amounts, x = NewDutch(s, r, d)
      PROVE  MachineOK(x)
  <2>1. s \in Nat /\ r \in Nat /\ d \in Nat
    BY <1>1
  <2>2. x.proto = "DutchAuction" /\ DutchOK(x)
    BY <1>4, <2>1, NewDutchOK
  <2> QED BY <2>2 DEF MachineOK, DutchOK, Kinds
<1>5. ASSUME NEW n \in Amounts, x = NewIterated(n)
      PROVE  MachineOK(x)
  <2>1. x.proto = "IteratedContractNet" /\ IteratedOK(x)
    BY <1>1, <1>5, NewIteratedOK
  <2> QED BY <2>1 DEF MachineOK, IteratedOK, Kinds
<1>6. ASSUME (\E r : x = NewBrokering(r)) \/ \E n, s : x = NewRecruiting(n, s)
      PROVE  MachineOK(x)
  BY <1>6, OtherNewOK
<1> QED BY <1>1, <1>2, <1>3, <1>4, <1>5, <1>6 DEF Constructed

\* process: an accepted message is recorded, has its effect and takes the machine to a target.
LEMMA ProcessIs ==
  ASSUME NEW x, NEW msg, Accepts(x, msg)
  PROVE  \E to \in Targets(x.proto, CanContinue(x), x.state, msg.perf) :
           Process(x, msg) = [Effect(RecordMessage(x, msg), msg, to) EXCEPT !.state = to]
<1> DEFINE T == Targets(x.proto, CanContinue(x), x.state, msg.perf)
           P(to) == [Effect(RecordMessage(x, msg), msg, to) EXCEPT !.state = to]
<1>1. T # {}
  BY DEF Accepts
<1>2. PICK to : to = CHOOSE t \in T : TRUE
  OBVIOUS
<1>3. to \in T
  BY <1>1, <1>2
<1>4. Process(x, msg) = P(CHOOSE t \in T : TRUE)
  BY DEF Process
<1> QED BY <1>2, <1>3, <1>4

\* A message keeps the invariant of an English auction.
LEMMA EnglishMessage ==
  ASSUME NEW x, x.proto = "EnglishAuction", EnglishOK(x), NEW msg, Accepts(x, msg)
  PROVE  Process(x, msg).proto = "EnglishAuction" /\ EnglishOK(Process(x, msg))
<1>1. PICK to \in Targets(x.proto, CanContinue(x), x.state, msg.perf) :
        Process(x, msg) = [Effect(RecordMessage(x, msg), msg, to) EXCEPT !.state = to]
  BY ProcessIs
<1>2. EnglishMove(x.state, to)
  BY <1>1, EnglishTargets
<1>3. PICK r : r = RecordMessage(x, msg)
  OBVIOUS
<1>4. /\ DOMAIN r = DOMAIN x
      /\ \A f \in DOMAIN x \ {"hist"} : r[f] = x[f]
  BY <1>3 DEF RecordMessage
<1>5. PICK y : y = Process(x, msg)
  OBVIOUS
<1>6. y = [EnglishProcess(r, msg, to) EXCEPT !.state = to]
  BY <1>1, <1>3, <1>4, <1>5 DEF EnglishOK, Effect
<1>7. /\ DOMAIN y = DOMAIN x /\ y.state = to
      /\ \A f \in DOMAIN x \ {"hist", "bidders", "state"} : y[f] = x[f]
  BY <1>4, <1>6 DEF EnglishProcess, EnglishOK
<1>8. /\ y.proto = x.proto /\ y.start = x.start /\ y.inc = x.inc /\ y.reserve = x.reserve
      /\ y.current = x.current /\ y.bids = x.bids /\ y.winner = x.winner
  BY <1>7 DEF EnglishOK
<1>9. EnglishOK(y)
  BY <1>2, <1>7, <1>8 DEF EnglishOK, EnglishMove
<1> QED BY <1>5, <1>8, <1>9

\* submit_bid keeps it, and adds a bid only above the last one by the increment.
LEMMA EnglishBid ==
  ASSUME NEW x, x.proto = "EnglishAuction", EnglishOK(x), NEW b \in Agents, NEW v \in Nat
  PROVE  SubmitBid(x, b, v).proto = "EnglishAuction" /\ EnglishOK(SubmitBid(x, b, v))
<1>1. CASE ~ (x.state \in {"announced", "bidding"} /\ v >= MinimumBid(x))
  BY <1>1 DEF SubmitBid
<1>2. CASE x.state \in {"announced", "bidding"} /\ v >= MinimumBid(x)
  <2>1. PICK bid : bid = [bidder |-> b, amount |-> v]
    OBVIOUS
  <2>2. bid \in Bids /\ bid.amount = v
    BY <2>1 DEF Bids
  <2>3. PICK y : y = SubmitBid(x, b, v)
    OBVIOUS
  <2>4. y = [x EXCEPT !.bids = Append(@, bid), !.current = Some(bid), !.state = "bidding"]
    BY <1>2, <2>1, <2>3 DEF SubmitBid
  <2>5. /\ DOMAIN y = DOMAIN x /\ y.state = "bidding" /\ y.bids = Append(x.bids, bid)
        /\ y.current = Some(bid) /\ y.proto = x.proto /\ y.start = x.start /\ y.inc = x.inc
        /\ y.reserve = x.reserve /\ y.winner = x.winner
    BY <2>4 DEF EnglishOK
  <2>6. x.winner = None /\ x.bids \in Seq(Bids)
    BY <1>2 DEF EnglishOK
  <2>7. /\ Append(x.bids, bid) \in Seq(Bids) /\ Append(x.bids, bid) # <<>>
        /\ Len(Append(x.bids, bid)) = Len(x.bids) + 1 /\ Len(x.bids) \in Nat
        /\ \A i \in 1 .. Len(x.bids) : Append(x.bids, bid)[i] = x.bids[i]
        /\ Append(x.bids, bid)[Len(x.bids) + 1] = bid
    BY <2>2, <2>6
  <2>8. x.bids = <<>> => v >= x.start /\ Len(x.bids) = 0
    BY <1>2 DEF EnglishOK, MinimumBid
  <2>9. x.bids # <<>> => /\ v >= x.bids[Len(x.bids)].amount + x.inc /\ Len(x.bids) > 0
                         /\ x.bids[1].amount >= x.start
    <3>1. SUFFICES ASSUME x.bids # <<>>
                   PROVE  /\ v >= x.bids[Len(x.bids)].amount + x.inc /\ Len(x.bids) > 0
                          /\ x.bids[1].amount >= x.start
      OBVIOUS
    <3>2. x.current # None /\ x.current[1] = x.bids[Len(x.bids)]
      BY <3>1 DEF EnglishOK, Some, None
    <3> QED BY <1>2, <2>6, <3>1, <3>2 DEF MinimumBid, EnglishOK
  <2>10. y.bids[1].amount >= y.start
    <3>1. CASE x.bids = <<>>
      BY <2>2, <2>5, <2>7, <2>8, <3>1
    <3>2. CASE x.bids # <<>>
      BY <2>5, <2>7, <2>9, <3>2
    <3> QED BY <3>1, <3>2
  <2>11. ASSUME NEW i \in 1 .. Len(y.bids) - 1
         PROVE  y.bids[i + 1].amount >= y.bids[i].amount + y.inc
    <3>1. i \in 1 .. Len(x.bids) /\ i \in Nat /\ Len(x.bids) # 0
      BY <2>5, <2>7
    <3>2. CASE i = Len(x.bids)
      BY <2>2, <2>5, <2>7, <2>9, <3>1, <3>2
    <3>3. CASE i # Len(x.bids)
      <4>1. i \in 1 .. Len(x.bids) - 1 /\ i + 1 \in 1 .. Len(x.bids)
        BY <2>7, <3>1, <3>3
      <4>2. x.bids[i + 1].amount >= x.bids[i].amount + x.inc
        BY <4>1 DEF EnglishOK
      <4>3. y.bids[i + 1] = x.bids[i + 1] /\ y.bids[i] = x.bids[i]
        BY <2>5, <2>7, <3>1, <4>1
      <4> QED BY <2>5, <4>2, <4>3
    <3> QED BY <3>2, <3>3
  <2>12. y.current = Some(y.bids[Len(y.bids)]) /\ y.bids # <<>> /\ y.bids \in Seq(Bids)
    BY <2>5, <2>7
  <2>13. y.start \in Nat /\ y.inc \in Nat /\ (y.reserve # None => y.reserve[1] \in Nat)
    BY <2>5 DEF EnglishOK
  <2>14. EnglishOK(y)
    BY <2>5, <2>6, <2>10, <2>11, <2>12, <2>13 DEF EnglishOK
  <2> QED BY <2>3, <2>5, <2>14
<1> QED BY <1>1, <1>2

\* close_auction keeps it, and names the last bidder only when the reserve is met.
LEMMA EnglishClose ==
  ASSUME NEW x, x.proto = "EnglishAuction", EnglishOK(x)
  PROVE  CloseAuction(x).proto = "EnglishAuction" /\ EnglishOK(CloseAuction(x))
<1>1. CASE x.state \notin {"bidding", "closing"}
  BY <1>1 DEF CloseAuction
<1>2. CASE /\ x.state \in {"bidding", "closing"}
           /\ x.current = None \/ (x.reserve # None /\ x.current[1].amount < x.reserve[1])
  <2>1. PICK y : y = CloseAuction(x)
    OBVIOUS
  <2>2. y = [x EXCEPT !.state = "failed"]
    BY <1>2, <2>1 DEF CloseAuction
  <2>3. /\ DOMAIN y = DOMAIN x /\ y.state = "failed" /\ y.bids = x.bids
        /\ y.current = x.current /\ y.proto = x.proto /\ y.start = x.start /\ y.inc = x.inc
        /\ y.reserve = x.reserve /\ y.winner = x.winner
    BY <2>2 DEF EnglishOK
  <2>4. EnglishOK(y)
    BY <2>3 DEF EnglishOK
  <2> QED BY <2>1, <2>3, <2>4
<1>3. CASE /\ x.state \in {"bidding", "closing"}
           /\ ~ (x.current = None \/ (x.reserve # None /\ x.current[1].amount < x.reserve[1]))
  <2>1. PICK y : y = CloseAuction(x)
    OBVIOUS
  <2>2. y = [x EXCEPT !.winner = Some(x.current[1].bidder), !.state = "completed"]
    BY <1>3, <2>1 DEF CloseAuction
  <2>3. /\ DOMAIN y = DOMAIN x /\ y.state = "completed" /\ y.bids = x.bids
        /\ y.current = x.current /\ y.proto = x.proto /\ y.start = x.start /\ y.inc = x.inc
        /\ y.reserve = x.reserve /\ y.winner = Some(x.current[1].bidder)
    BY <2>2 DEF EnglishOK
  <2>4. x.bids # <<>> /\ x.current = Some(x.bids[Len(x.bids)])
    BY <1>3 DEF EnglishOK
  <2>5. x.current[1] = x.bids[Len(x.bids)]
    BY <2>4 DEF Some
  <2>6. x.reserve # None => x.bids[Len(x.bids)].amount >= x.reserve[1]
    <3>1. x.bids[Len(x.bids)] \in Bids
      BY <2>4 DEF EnglishOK
    <3>2. x.bids[Len(x.bids)].amount \in Nat
      BY <3>1 DEF Bids
    <3>3. x.reserve # None => x.reserve[1] \in Nat /\ ~ (x.current[1].amount < x.reserve[1])
      BY <1>3 DEF EnglishOK
    <3> QED BY <2>5, <3>2, <3>3
  <2>7. EnglishOK(y)
    BY <2>3, <2>4, <2>5, <2>6 DEF EnglishOK
  <2> QED BY <2>1, <2>3, <2>7
<1> QED BY <1>1, <1>2, <1>3

\* A message keeps the invariant of a Dutch auction and leaves a winner where it is.
LEMMA DutchMessage ==
  ASSUME NEW x, x.proto = "DutchAuction", DutchOK(x), NEW msg, Accepts(x, msg)
  PROVE  /\ Process(x, msg).proto = "DutchAuction" /\ DutchOK(Process(x, msg))
         /\ Process(x, msg).start = x.start /\ Process(x, msg).reserve = x.reserve
         /\ x.winner # None => Process(x, msg).winner = x.winner
<1>1. PICK to \in Targets(x.proto, CanContinue(x), x.state, msg.perf) :
        Process(x, msg) = [Effect(RecordMessage(x, msg), msg, to) EXCEPT !.state = to]
  BY ProcessIs
<1>2. DutchMove(x.state, msg.perf, to)
  BY <1>1, DutchTargets
<1>3. PICK r : r = RecordMessage(x, msg)
  OBVIOUS
<1>4. /\ DOMAIN r = DOMAIN x
      /\ \A f \in DOMAIN x \ {"hist"} : r[f] = x[f]
  BY <1>3 DEF RecordMessage
<1>5. PICK y : y = Process(x, msg)
  OBVIOUS
<1>6. y = [DutchProcess(r, msg, to) EXCEPT !.state = to]
  BY <1>1, <1>3, <1>4, <1>5 DEF DutchOK, Effect
<1>7. /\ DOMAIN y = DOMAIN x /\ y.state = to
      /\ \A f \in DOMAIN x \ {"hist", "winner", "state"} : y[f] = x[f]
      /\ y.winner = IF msg.perf = "Propose" /\ msg.from # NoAgent THEN Some(msg.from) ELSE x.winner
  BY <1>4, <1>6 DEF DutchProcess, DutchOK
<1>8. /\ y.proto = x.proto /\ y.start = x.start /\ y.reserve = x.reserve /\ y.dec = x.dec
      /\ y.price = x.price /\ y.prices = x.prices /\ y.sale = x.sale
  BY <1>7 DEF DutchOK
<1>9. msg.perf = "Propose" => x.state = "descending" /\ to = "bid_received" /\ x.winner = None
  BY <1>2 DEF DutchMove, DutchOK
<1>10. Some(msg.from) # None
  BY DEF Some, None
<1>11. DutchOK(y)
  BY <1>2, <1>7, <1>8, <1>9, <1>10 DEF DutchOK, DutchMove
<1> QED BY <1>5, <1>7, <1>8, <1>9, <1>11

\* What the calls of a Dutch auction's owner come to.
DutchResults(x) ==
    {DutchStart(x), DecreasePrice(x)} \cup {AcceptBid(x, b) : b \in Agents}

\* So do its owner's calls: start, decrease_price (never under the reserve) and accept_bid.
LEMMA DutchCalls ==
  ASSUME NEW x, x.proto = "DutchAuction", DutchOK(x), NEW y \in DutchResults(x)
  PROVE  /\ y.proto = "DutchAuction" /\ DutchOK(y)
         /\ y.start = x.start /\ y.reserve = x.reserve
         /\ x.winner # None => y.winner = x.winner
<1>1. ASSUME NEW p \in Int, x.prices \in Seq(Int)
      PROVE  /\ Append(x.prices, p) \in Seq(Int) /\ Append(x.prices, p) # <<>>
             /\ Append(x.prices, p)[Len(Append(x.prices, p))] = p
  BY <1>1
<1>2. CASE y = DutchStart(x)
  <2>1. CASE x.state # "not_started"
    BY <1>2, <2>1 DEF DutchStart
  <2>2. CASE x.state = "not_started"
    <3>1. y = [x EXCEPT !.price = x.start, !.round = 1, !.prices = Append(@, x.start),
                        !.state = "descending"]
      BY <1>2, <2>2 DEF DutchStart
    <3>2. /\ DOMAIN y = DOMAIN x /\ y.state = "descending" /\ y.price = x.start
          /\ y.prices = Append(x.prices, x.start) /\ y.proto = x.proto /\ y.start = x.start
          /\ y.reserve = x.reserve /\ y.dec = x.dec /\ y.winner = x.winner /\ y.sale = x.sale
      BY <3>1 DEF DutchOK
    <3>3. x.winner = None /\ x.sale = None
      BY <2>2 DEF DutchOK
    <3>4. DutchOK(y)
      BY <1>1, <3>2, <3>3 DEF DutchOK
    <3> QED BY <3>2, <3>3, <3>4
  <2> QED BY <2>1, <2>2
<1>3. CASE y = DecreasePrice(x)
  <2>1. CASE x.state # "descending"
    BY <1>3, <2>1 DEF DecreasePrice
  <2>2. CASE x.state = "descending" /\ x.price - x.dec < x.reserve
    <3>1. y = [x EXCEPT !.state = "unsold"]
      BY <1>3, <2>2 DEF DecreasePrice
    <3>2. /\ DOMAIN y = DOMAIN x /\ y.state = "unsold" /\ y.price = x.price
          /\ y.prices = x.prices /\ y.proto = x.proto /\ y.start = x.start
          /\ y.reserve = x.reserve /\ y.dec = x.dec /\ y.winner = x.winner /\ y.sale = x.sale
      BY <3>1 DEF DutchOK
    <3>3. DutchOK(y)
      BY <2>2, <3>2 DEF DutchOK
    <3> QED BY <3>2, <3>3
  <2>3. CASE x.state = "descending" /\ ~ (x.price - x.dec < x.reserve)
    <3>1. y = [x EXCEPT !.price = @ - x.dec, !.round = @ + 1,
                        !.prices = Append(@, x.price - x.dec)]
      BY <1>3, <2>3 DEF DecreasePrice
    <3>2. /\ DOMAIN y = DOMAIN x /\ y.state = x.state /\ y.price = x.price - x.dec
          /\ y.prices = Append(x.prices, x.price - x.dec) /\ y.proto = x.proto
          /\ y.start = x.start /\ y.reserve = x.reserve /\ y.dec = x.dec
          /\ y.winner = x.winner /\ y.sale = x.sale
      BY <3>1 DEF DutchOK
    <3>3. x.winner = None /\ x.sale = None /\ x.price - x.dec \in Int
          /\ x.price - x.dec >= x.reserve
      BY <2>3 DEF DutchOK
    <3>4. DutchOK(y)
      BY <1>1, <3>2, <3>3 DEF DutchOK
    <3> QED BY <3>2, <3>3, <3>4
  <2> QED BY <2>1, <2>2, <2>3
<1>4. ASSUME NEW b \in Agents, y = AcceptBid(x, b)
      PROVE  /\ y.proto = "DutchAuction" /\ DutchOK(y)
             /\ y.start = x.start /\ y.reserve = x.reserve
             /\ x.winner # None => y.winner = x.winner
  <2>1. CASE x.state # "descending"
    BY <1>4, <2>1 DEF AcceptBid
  <2>2. CASE x.state = "descending"
    <3>1. y = [x EXCEPT !.winner = Some(b), !.sale = Some(x.price), !.state = "sold"]
      BY <1>4, <2>2 DEF AcceptBid
    <3>2. /\ DOMAIN y = DOMAIN x /\ y.state = "sold" /\ y.price = x.price
          /\ y.prices = x.prices /\ y.proto = x.proto /\ y.start = x.start
          /\ y.reserve = x.reserve /\ y.dec = x.dec /\ y.winner = Some(b)
          /\ y.sale = Some(x.price)
      BY <3>1 DEF DutchOK
    <3>3. x.winner = None /\ Some(b) # None
      BY <2>2 DEF DutchOK, Some, None
    <3>4. DutchOK(y)
      BY <3>2, <3>3 DEF DutchOK
    <3> QED BY <3>2, <3>3, <3>4
  <2> QED BY <2>1, <2>2
<1> QED BY <1>2, <1>3, <1>4 DEF DutchResults

\* A message keeps the invariant of an iterated contract net.
LEMMA IteratedMessage ==
  ASSUME NEW x, x.proto = "IteratedContractNet", IteratedOK(x), NEW msg \in Messages,
         Accepts(x, msg)
  PROVE  Process(x, msg).proto = "IteratedContractNet" /\ IteratedOK(Process(x, msg))
<1>1. PICK to \in Targets(x.proto, CanContinue(x), x.state, msg.perf) :
        Process(x, msg) = [Effect(RecordMessage(x, msg), msg, to) EXCEPT !.state = to]
  BY ProcessIs
<1>2. IteratedMove(x.state, msg.perf, to) /\ (to = "cancelled" => msg.perf = "Cancel")
  BY <1>1, IteratedTargets
<1>3. PICK r : r = RecordMessage(x, msg)
  OBVIOUS
<1>4. /\ DOMAIN r = DOMAIN x
      /\ \A f \in DOMAIN x \ {"hist"} : r[f] = x[f]
  BY <1>3 DEF RecordMessage
<1>5. PICK y : y = Process(x, msg)
  OBVIOUS
<1>6. y = [IteratedProcess(r, msg, to) EXCEPT !.state = to]
  BY <1>1, <1>3, <1>4, <1>5 DEF IteratedOK, Effect
<1>7. /\ r.state = x.state /\ r.round = x.round /\ r.proposals = x.proposals
      /\ r.proto = x.proto /\ r.max = x.max /\ r.rounds = x.rounds /\ r.selected = x.selected
      /\ DOMAIN r = DOMAIN x
  BY <1>4 DEF IteratedOK
<1>8. CASE msg.perf = "Cfp" /\ x.state = "not_started"
  <2>1. y = [[r EXCEPT !.round = 1] EXCEPT !.state = to]
    BY <1>6, <1>7, <1>8 DEF IteratedProcess
  <2>2. /\ DOMAIN y = DOMAIN x /\ y.state = to /\ y.round = 1 /\ y.proposals = x.proposals
        /\ y.proto = x.proto /\ y.max = x.max /\ y.rounds = x.rounds /\ y.selected = x.selected
    BY <1>7, <2>1 DEF IteratedOK
  <2>3. x.rounds = <<>> /\ x.selected = None /\ to = "cfp_sent"
    BY <1>2, <1>8 DEF IteratedOK, IteratedMove
  <2>4. IteratedOK(y)
    BY <2>2, <2>3 DEF IteratedOK
  <2> QED BY <1>5, <2>2, <2>4
<1>9. CASE msg.perf = "Cfp" /\ x.state # "not_started"
  <2>1. y = [[r EXCEPT !.round = @ + 1, !.proposals = {}] EXCEPT !.state = to]
    BY <1>6, <1>7, <1>9 DEF IteratedProcess
  <2>2. /\ DOMAIN y = DOMAIN x /\ y.state = to /\ y.round = x.round + 1 /\ y.proposals = {}
        /\ y.proto = x.proto /\ y.max = x.max /\ y.rounds = x.rounds /\ y.selected = x.selected
    BY <1>7, <2>1 DEF IteratedOK
  <2>3. x.selected = None /\ to = "cfp_sent"
    BY <1>2, <1>9 DEF IteratedOK, IteratedMove
  <2>4. \A i \in 1 .. Len(x.rounds) : x.rounds[i].round < x.round + 1
    <3>1. \A i \in 1 .. Len(x.rounds) : x.rounds[i] \in Archived
      BY DEF IteratedOK
    <3> QED BY <3>1 DEF IteratedOK, Archived
  <2>5. IteratedOK(y)
    BY <2>2, <2>3, <2>4 DEF IteratedOK
  <2> QED BY <1>5, <2>2, <2>5
<1>10. CASE msg.perf = "Propose"
  <2>1. y = [[r EXCEPT !.proposals = @ \cup ({msg.from} \ {NoAgent})] EXCEPT !.state = to]
    BY <1>6, <1>7, <1>10 DEF IteratedProcess
  <2>2. /\ DOMAIN y = DOMAIN x /\ y.state = to /\ y.round = x.round
        /\ y.proposals = x.proposals \cup ({msg.from} \ {NoAgent})
        /\ y.proto = x.proto /\ y.max = x.max /\ y.rounds = x.rounds /\ y.selected = x.selected
    BY <1>7, <2>1 DEF IteratedOK
  <2>3. x.selected = None /\ to = "cfp_sent" /\ msg.from \in Agents \cup {NoAgent}
    BY <1>2, <1>10 DEF IteratedOK, IteratedMove, Messages
  <2>4. IteratedOK(y)
    BY <2>2, <2>3 DEF IteratedOK
  <2> QED BY <1>5, <2>2, <2>4
<1>11. CASE msg.perf \notin {"Cfp", "Propose"}
  <2>1. \/ y = [[r EXCEPT !.result = Here(r)] EXCEPT !.state = to]
        \/ y = [r EXCEPT !.state = to]
    BY <1>6, <1>7, <1>11 DEF IteratedProcess
  <2>2. /\ DOMAIN y = DOMAIN x /\ y.state = to /\ y.round = x.round
        /\ y.proposals = x.proposals
        /\ y.proto = x.proto /\ y.max = x.max /\ y.rounds = x.rounds /\ y.selected = x.selected
    BY <1>7, <2>1 DEF IteratedOK
  <2>3. /\ to # "not_started"
        /\ x.selected # None => to \notin {"not_started", "cfp_sent", "evaluating", "revising"}
    BY <1>2, <1>11 DEF IteratedOK, IteratedMove
  <2>4. IteratedOK(y)
    BY <2>2, <2>3 DEF IteratedOK
  <2> QED BY <1>5, <2>2, <2>4
<1> QED BY <1>8, <1>9, <1>10, <1>11

\* So does start_round, which archives the round before when it had proposals.
LEMMA IteratedRound ==
  ASSUME NEW x, x.proto = "IteratedContractNet", IteratedOK(x)
  PROVE  StartRound(x).proto = "IteratedContractNet" /\ IteratedOK(StartRound(x))
<1>1. CASE ~ (CanContinue(x) /\ x.state \in {"not_started", "evaluating", "revising"})
  BY <1>1 DEF StartRound
<1>2. CASE CanContinue(x) /\ x.state \in {"not_started", "evaluating", "revising"}
  <2>1. PICK past : past = IF x.proposals = {} THEN x.rounds
                    ELSE Append(x.rounds, [round |-> x.round, proposals |-> x.proposals])
    OBVIOUS
  <2>2. PICK y : y = StartRound(x)
    OBVIOUS
  <2>3. y = [x EXCEPT !.rounds = IF x.proposals = {} THEN @
                        ELSE Append(@, [round |-> x.round, proposals |-> x.proposals]),
                      !.round = @ + 1, !.proposals = {}, !.state = "cfp_sent"]
    BY <1>2, <2>2 DEF StartRound
  <2>4. /\ DOMAIN y = DOMAIN x /\ y.state = "cfp_sent" /\ y.round = x.round + 1
        /\ y.proposals = {} /\ y.proto = x.proto /\ y.max = x.max /\ y.rounds = past
        /\ y.selected = x.selected
    BY <2>1, <2>3 DEF IteratedOK
  <2>5. x.selected = None
    BY <1>2 DEF IteratedOK
  <2>6. /\ x.rounds \in Seq(Archived) /\ x.round \in Nat /\ Len(x.rounds) \in Nat
        /\ \A i \in 1 .. Len(x.rounds) :
             /\ x.rounds[i].round \in Nat /\ x.rounds[i].round < x.round
             /\ x.rounds[i].proposals # {}
             /\ i > 1 => x.rounds[i - 1].round < x.rounds[i].round
    <3>1. x.rounds \in Seq(Archived) /\ x.round \in Nat /\ Len(x.rounds) \in Nat
      BY DEF IteratedOK
    <3>2. ASSUME NEW i \in 1 .. Len(x.rounds)
          PROVE  x.rounds[i].round \in Nat
      <4>1. x.rounds[i] \in Archived
        BY <3>1
      <4> QED BY ONLY <4>1 DEF Archived
    <3> QED BY <3>1, <3>2 DEF IteratedOK
  <2>7. /\ past \in Seq(Archived)
        /\ \A i \in 1 .. Len(past) :
             /\ past[i].round < x.round + 1 /\ past[i].proposals # {}
             /\ i > 1 => past[i - 1].round < past[i].round
    <3>1. CASE x.proposals = {}
      BY <2>1, <2>6, <3>1
    <3>2. CASE x.proposals # {}
      <4>1. PICK e : e = [round |-> x.round, proposals |-> x.proposals]
        OBVIOUS
      <4>2. e \in Archived /\ e.round = x.round /\ e.proposals # {}
        BY <3>2, <4>1 DEF IteratedOK, Archived
      <4>3. past = Append(x.rounds, e)
        BY <2>1, <3>2, <4>1
      <4>4. /\ past \in Seq(Archived) /\ Len(past) = Len(x.rounds) + 1
            /\ \A i \in 1 .. Len(x.rounds) : past[i] = x.rounds[i]
            /\ past[Len(x.rounds) + 1] = e
        BY <2>6, <4>2, <4>3
      <4>5. ASSUME NEW i \in 1 .. Len(past)
            PROVE  /\ past[i].round < x.round + 1 /\ past[i].proposals # {}
                   /\ i > 1 => past[i - 1].round < past[i].round
        <5>1. CASE i \in 1 .. Len(x.rounds)
          <6>1. past[i] = x.rounds[i] /\ (i > 1 => past[i - 1] = x.rounds[i - 1])
            BY <2>6, <4>4, <5>1
          <6> QED BY <2>6, <5>1, <6>1
        <5>2. CASE i = Len(x.rounds) + 1
          <6>1. i > 1 => i - 1 \in 1 .. Len(x.rounds) /\ past[i - 1] = x.rounds[i - 1]
            BY <2>6, <4>4, <5>2
          <6> QED BY <2>6, <4>2, <4>4, <5>2, <6>1
        <5> QED BY <2>6, <4>4, <5>1, <5>2
      <4> QED BY <4>4, <4>5
    <3> QED BY <3>1, <3>2
  <2>8. x.max \in Nat
    BY DEF IteratedOK
  <2>9. {"proto", "state", "hist", "parts", "round", "max", "rounds", "proposals", "selected",
         "result"} \subseteq DOMAIN y
    BY <2>4 DEF IteratedOK
  <2>10. y.round \in Nat /\ y.max \in Nat /\ y.proposals \in SUBSET Agents /\ y.selected = None
         /\ y.state # "not_started" /\ y.rounds \in Seq(Archived)
    BY <2>4, <2>5, <2>6, <2>7, <2>8
  <2>11. \A i \in 1 .. Len(y.rounds) :
            /\ y.rounds[i].round < y.round /\ y.rounds[i].proposals # {}
            /\ i > 1 => y.rounds[i - 1].round < y.rounds[i].round
    BY <2>4, <2>7
  <2>12. IteratedOK(y)
    BY <2>9, <2>10, <2>11 DEF IteratedOK
  <2> QED BY <2>2, <2>4, <2>12
<1> QED BY <1>1, <1>2

\* And those of an iterated contract net's initiator.
IteratedResults(x) ==
    {StartEvaluation(x), RequestRevision(x), RecordResult(x)}
      \cup {AddProposal(x, b) : b \in Agents} \cup {SelectContractor(x, b) : b \in Agents}

\* So do the initiator's other calls.
LEMMA IteratedCalls ==
  ASSUME NEW x, x.proto = "IteratedContractNet", IteratedOK(x), NEW y \in IteratedResults(x)
  PROVE  y.proto = "IteratedContractNet" /\ IteratedOK(y)
<1>1. CASE y = x
  BY <1>1
<1>2. ASSUME NEW s, y = [x EXCEPT !.state = s], s # "not_started",
             x.selected # None => s \notin {"cfp_sent", "evaluating", "revising"}
      PROVE  y.proto = "IteratedContractNet" /\ IteratedOK(y)
  <2>1. /\ DOMAIN y = DOMAIN x /\ y.state = s /\ y.round = x.round
        /\ y.proposals = x.proposals
        /\ y.proto = x.proto /\ y.max = x.max /\ y.rounds = x.rounds /\ y.selected = x.selected
    BY <1>2 DEF IteratedOK
  <2>2. IteratedOK(y)
    BY <1>2, <2>1 DEF IteratedOK
  <2> QED BY <2>1, <2>2
<1>3. CASE y = StartEvaluation(x)
  <2>1. CASE x.state = "cfp_sent"
    <3>1. PICK s : s = CASE x.proposals # {} -> "evaluating"
                         [] x.proposals = {} /\ x.round >= x.max -> "no_agreement"
                         [] x.proposals = {} /\ x.round < x.max -> "revising"
      OBVIOUS
    <3>2. y = [x EXCEPT !.state = s]
      BY <1>3, <2>1, <3>1 DEF StartEvaluation
    <3>3. s # "not_started"
      BY <3>1 DEF IteratedOK
    <3>4. x.selected = None
      BY <2>1 DEF IteratedOK
    <3> QED BY <1>2, <3>2, <3>3, <3>4
  <2> QED BY <1>1, <1>3, <2>1 DEF StartEvaluation
<1>4. CASE y = RequestRevision(x)
  <2>1. CASE x.state = "evaluating"
    <3>1. PICK s : s = IF CanContinue(x) THEN "revising" ELSE "no_agreement"
      OBVIOUS
    <3>2. y = [x EXCEPT !.state = s]
      BY <1>4, <2>1, <3>1 DEF RequestRevision
    <3>3. x.selected = None /\ s # "not_started"
      BY <2>1, <3>1 DEF IteratedOK
    <3> QED BY <1>2, <3>2, <3>3
  <2> QED BY <1>1, <1>4, <2>1 DEF RequestRevision
<1>5. CASE y = RecordResult(x)
  <2>1. CASE x.state \in {"accepted", "waiting_result"}
    <3>1. y = [x EXCEPT !.result = Some(0), !.state = "completed"]
      BY <1>5, <2>1 DEF RecordResult
    <3>2. /\ DOMAIN y = DOMAIN x /\ y.state = "completed" /\ y.round = x.round
          /\ y.proposals = x.proposals /\ y.proto = x.proto /\ y.max = x.max
          /\ y.rounds = x.rounds /\ y.selected = x.selected
      BY <3>1 DEF IteratedOK
    <3>3. IteratedOK(y)
      BY <3>2 DEF IteratedOK
    <3> QED BY <3>2, <3>3
  <2> QED BY <1>1, <1>5, <2>1 DEF RecordResult
<1>6. ASSUME NEW b \in Agents, y = AddProposal(x, b)
      PROVE  y.proto = "IteratedContractNet" /\ IteratedOK(y)
  <2>1. CASE x.state = "cfp_sent"
    <3>1. y = [x EXCEPT !.proposals = @ \cup {b}]
      BY <1>6, <2>1 DEF AddProposal
    <3>2. /\ DOMAIN y = DOMAIN x /\ y.state = x.state /\ y.round = x.round
          /\ y.proposals = x.proposals \cup {b} /\ y.proto = x.proto /\ y.max = x.max
          /\ y.rounds = x.rounds /\ y.selected = x.selected
      BY <3>1 DEF IteratedOK
    <3>3. IteratedOK(y)
      BY <2>1, <3>2 DEF IteratedOK
    <3> QED BY <3>2, <3>3
  <2> QED BY <1>1, <1>6, <2>1 DEF AddProposal
<1>7. ASSUME NEW b \in Agents, y = SelectContractor(x, b)
      PROVE  y.proto = "IteratedContractNet" /\ IteratedOK(y)
  <2>1. CASE x.state = "evaluating" /\ b \in x.proposals
    <3>1. y = [x EXCEPT !.selected = Some(b), !.state = "accepted"]
      BY <1>7, <2>1 DEF SelectContractor
    <3>2. /\ DOMAIN y = DOMAIN x /\ y.state = "accepted" /\ y.round = x.round
          /\ y.proposals = x.proposals /\ y.proto = x.proto /\ y.max = x.max
          /\ y.rounds = x.rounds /\ y.selected = Some(b)
      BY <3>1 DEF IteratedOK
    <3>3. Some(b)[1] = b
      BY DEF Some
    <3>4. IteratedOK(y)
      BY <2>1, <3>2, <3>3 DEF IteratedOK
    <3> QED BY <3>2, <3>4
  <2> QED BY <1>1, <1>7, <2>1 DEF SelectContractor
<1> QED BY <1>3, <1>4, <1>5, <1>6, <1>7 DEF IteratedResults

\* What a message does to the data of a machine leaves its protocol and its history alone.
LEMMA EffectKeeps ==
  ASSUME NEW x, x.proto \in Kinds, "proto" \in DOMAIN x, NEW msg, NEW to
  PROVE  /\ DOMAIN Effect(x, msg, to) = DOMAIN x /\ Effect(x, msg, to).proto = x.proto
         /\ "hist" \in DOMAIN x => Effect(x, msg, to).hist = x.hist
<1>1. CASE x.proto = "Request"
  BY <1>1 DEF Effect, RequestProcess, AddParticipant
<1>2. CASE x.proto = "Query"
  BY <1>2 DEF Effect, QueryProcess
<1>3. CASE x.proto = "ContractNet"
  BY <1>3 DEF Effect, ContractNetProcess, AddParticipant
<1>4. CASE x.proto = "Subscribe"
  BY <1>4 DEF Effect, SubscribeProcess, AddParticipant
<1>5. CASE x.proto = "Propose"
  BY <1>5 DEF Effect, ProposeProcess, AddParticipant
<1>6. CASE x.proto = "EnglishAuction"
  BY <1>6 DEF Effect, EnglishProcess
<1>7. CASE x.proto = "DutchAuction"
  BY <1>7 DEF Effect, DutchProcess
<1>8. CASE x.proto = "IteratedContractNet"
  BY <1>8 DEF Effect, IteratedProcess
<1>9. CASE x.proto = "Brokering"
  BY <1>9 DEF Effect, BrokeringProcess, UpdateProvider
<1>10. CASE x.proto = "Recruiting"
  BY <1>10 DEF Effect, RecruitingProcess
<1> QED BY <1>1, <1>2, <1>3, <1>4, <1>5, <1>6, <1>7, <1>8, <1>9, <1>10 DEF Kinds

\* An accepted message keeps every machine's invariant, and an ended machine ended.
LEMMA MessageOK ==
  ASSUME NEW x, MachineOK(x), NEW msg \in Messages, Accepts(x, msg)
  PROVE  /\ MachineOK(Process(x, msg)) /\ Process(x, msg).proto = x.proto
         /\ IsComplete(x) => IsComplete(Process(x, msg))
<1>1. PICK to \in Targets(x.proto, CanContinue(x), x.state, msg.perf) :
        Process(x, msg) = [Effect(RecordMessage(x, msg), msg, to) EXCEPT !.state = to]
  BY ProcessIs
<1>2. PICK r : r = RecordMessage(x, msg)
  OBVIOUS
<1>3. DOMAIN r = DOMAIN x /\ r.proto = x.proto /\ x.proto \in Kinds
      /\ {"proto", "state"} \subseteq DOMAIN x
  BY <1>2 DEF RecordMessage, MachineOK
<1>4. PICK e : e = Effect(r, msg, to)
  OBVIOUS
<1>5. DOMAIN e = DOMAIN x /\ e.proto = x.proto
  BY <1>3, <1>4, EffectKeeps
<1>6. PICK y : y = Process(x, msg)
  OBVIOUS
<1>7. y = [e EXCEPT !.state = to]
  BY <1>1, <1>2, <1>4, <1>6
<1>8. DOMAIN y = DOMAIN x /\ y.proto = x.proto /\ y.state = to
  BY <1>3, <1>5, <1>7
<1>9. IsComplete(x) => IsComplete(y)
  BY <1>1, <1>3, <1>8, EndsStay DEF IsComplete
<1>10. x.proto = "EnglishAuction" => EnglishOK(y)
  BY <1>6, EnglishMessage DEF MachineOK
<1>11. x.proto = "DutchAuction" => DutchOK(y)
  BY <1>6, DutchMessage DEF MachineOK
<1>12. x.proto = "IteratedContractNet" => IteratedOK(y)
  BY <1>6, IteratedMessage DEF MachineOK
<1>13. MachineOK(y)
  BY <1>3, <1>8, <1>10, <1>11, <1>12 DEF MachineOK
<1> QED BY <1>6, <1>8, <1>9, <1>13

\* And those of an English auction's owner, and of a broker, a recruiter and a contract net's initiator.
EnglishResults(x) ==
    {SubmitBid(x, a, v) : a \in Agents, v \in Amounts} \cup {CloseAuction(x)}

OtherResults(x) ==
    {AcceptProposal(x, a) : a \in Agents} \cup {AddProvider(x, a) : a \in Agents}
      \cup {UpdateProvider(x, a, s, None) : a \in Agents, s \in ProviderStatus}
      \cup {AddCandidate(x, a, v) : a \in Agents, v \in Amounts}

OtherKinds == {"ContractNet", "Brokering", "Recruiting"}

\* An owner's call is a call of the machine's own protocol.
LEMMA CallCases ==
  ASSUME ContractNetCall \/ EnglishCall \/ DutchCall \/ IteratedCall \/ BrokeringCall
           \/ RecruitingCall
  PROVE  \/ m.proto = "EnglishAuction" /\ m' \in EnglishResults(m)
         \/ m.proto = "DutchAuction" /\ m' \in DutchResults(m)
         \/ m.proto = "IteratedContractNet" /\ m' \in {StartRound(m)} \cup IteratedResults(m)
         \/ m.proto \in OtherKinds /\ m' \in OtherResults(m)
         \/ m.proto = "Brokering" /\ m' = Consolidate(m)
         \/ m.proto = "Recruiting" /\ m' = CompleteSearch(m)
<1>1. CASE ContractNetCall
  BY <1>1 DEF ContractNetCall, To, OtherResults, OtherKinds
<1>2. CASE EnglishCall
  BY <1>2 DEF EnglishCall, To, EnglishResults
<1>3. CASE DutchCall
  BY <1>3 DEF DutchCall, To, DutchResults
<1>4. CASE IteratedCall
  BY <1>4 DEF IteratedCall, To, IteratedResults
<1>5. CASE BrokeringCall
  BY <1>5 DEF BrokeringCall, To, OtherResults, OtherKinds
<1>6. CASE RecruitingCall
  BY <1>6 DEF RecruitingCall, To, OtherResults, OtherKinds
<1> QED BY <1>1, <1>2, <1>3, <1>4, <1>5, <1>6

\* Once a conversation has ended, its owner's calls change nothing.
LEMMA EndedCalls ==
  ASSUME NEW x, MachineOK(x), IsComplete(x)
  PROVE  /\ x.proto = "EnglishAuction" => \A y \in EnglishResults(x) : y = x
         /\ x.proto = "DutchAuction" => \A y \in DutchResults(x) : y = x
         /\ x.proto = "IteratedContractNet" => \A y \in {StartRound(x)} \cup IteratedResults(x) : y = x
         /\ x.proto = "Brokering" => Consolidate(x) = x
         /\ x.proto = "Recruiting" => CompleteSearch(x) = x
<1>1. CASE x.proto = "EnglishAuction"
  <2>1. x.state \in {"completed", "failed", "cancelled"}
    BY <1>1 DEF IsComplete, Ends, EnglishEnds
  <2>2. CloseAuction(x) = x /\ \A a, v : SubmitBid(x, a, v) = x
    BY <2>1 DEF CloseAuction, SubmitBid
  <2> QED BY <1>1, <2>2 DEF EnglishResults
<1>2. CASE x.proto = "DutchAuction"
  <2>1. x.state \in {"sold", "unsold", "cancelled"}
    BY <1>2 DEF IsComplete, Ends, DutchEnds
  <2>2. DutchStart(x) = x /\ DecreasePrice(x) = x /\ \A a : AcceptBid(x, a) = x
    BY <2>1 DEF DutchStart, DecreasePrice, AcceptBid
  <2> QED BY <1>2, <2>2 DEF DutchResults
<1>3. CASE x.proto = "IteratedContractNet"
  <2>1. x.state \in {"completed", "no_agreement", "failed", "cancelled"}
    BY <1>3 DEF IsComplete, Ends, IteratedEnds
  <2>2. /\ StartRound(x) = x /\ StartEvaluation(x) = x /\ RequestRevision(x) = x
        /\ RecordResult(x) = x
        /\ \A a : AddProposal(x, a) = x /\ SelectContractor(x, a) = x
    BY <2>1 DEF StartRound, StartEvaluation, RequestRevision, RecordResult, AddProposal,
                SelectContractor
  <2> QED BY <1>3, <2>2 DEF IteratedResults
<1>4. CASE x.proto = "Brokering"
  <2>1. x.state \in {"completed", "failed", "cancelled"}
    BY <1>4 DEF IsComplete, Ends, BrokeringEnds
  <2>2. Consolidate(x) = x
    BY <2>1 DEF Consolidate
  <2> QED BY <1>4, <2>2
<1>5. CASE x.proto = "Recruiting"
  <2>1. x.state \in {"completed", "no_candidates", "failed", "cancelled"}
    BY <1>5 DEF IsComplete, Ends, RecruitingEnds
  <2>2. CompleteSearch(x) = x
    BY <2>1 DEF CompleteSearch
  <2> QED BY <1>5, <2>2
<1> QED BY <1>1, <1>2, <1>3, <1>4, <1>5

\* The calls of contract nets, brokers and recruiters keep the invariant.
LEMMA OtherCallOK ==
  ASSUME NEW x, MachineOK(x), x.proto \in OtherKinds, NEW y,
         \/ y \in OtherResults(x)
         \/ x.proto = "Brokering" /\ y = Consolidate(x)
         \/ x.proto = "Recruiting" /\ y = CompleteSearch(x)
  PROVE  MachineOK(y) /\ y.proto = x.proto /\ (y \in OtherResults(x) => y.state = x.state)
<1>1. {"proto", "state"} \subseteq DOMAIN x /\ x.proto \in Kinds
  BY DEF MachineOK
<1>2. DOMAIN y = DOMAIN x /\ y.proto = x.proto /\ (y \in OtherResults(x) => y.state = x.state)
  <2>1. ASSUME NEW a, NEW v
        PROVE  LET z == AddCandidate(x, a, v)
               IN  DOMAIN z = DOMAIN x /\ z.proto = x.proto /\ z.state = x.state
    BY <1>1 DEF AddCandidate
  <2>2. ASSUME NEW a
        PROVE  LET z == AcceptProposal(x, a)
               IN  DOMAIN z = DOMAIN x /\ z.proto = x.proto /\ z.state = x.state
    BY <1>1 DEF AcceptProposal
  <2>3. ASSUME NEW a
        PROVE  LET z == AddProvider(x, a)
               IN  DOMAIN z = DOMAIN x /\ z.proto = x.proto /\ z.state = x.state
    BY <1>1 DEF AddProvider
  <2>4. ASSUME NEW a, NEW s
        PROVE  LET z == UpdateProvider(x, a, s, None)
               IN  DOMAIN z = DOMAIN x /\ z.proto = x.proto /\ z.state = x.state
    BY <1>1 DEF UpdateProvider
  <2>5. LET z == Consolidate(x) IN DOMAIN z = DOMAIN x /\ z.proto = x.proto
    BY <1>1 DEF Consolidate
  <2>6. LET z == CompleteSearch(x) IN DOMAIN z = DOMAIN x /\ z.proto = x.proto
    BY <1>1 DEF CompleteSearch
  <2>7. CASE y \in OtherResults(x)
    BY <2>1, <2>2, <2>3, <2>4, <2>7 DEF OtherResults
  <2>8. CASE y = Consolidate(x) /\ y \notin OtherResults(x)
    BY <2>5, <2>8
  <2>9. CASE y = CompleteSearch(x) /\ y \notin OtherResults(x)
    BY <2>6, <2>9
  <2> QED BY <2>7, <2>8, <2>9
<1> QED BY <1>1, <1>2 DEF MachineOK, OtherKinds

\* The machine never changes its kind, nor an auction its start price and its reserve.
OpensAboveReserve(x) == x.proto = "DutchAuction" => x.start >= x.reserve

\* Every step keeps the invariant, leaves a winner and an end as they are, and an auction's prices
\* as they were opened.
LEMMA NegotiationStep ==
  ASSUME MachineOK(m), [NNext]_nvars
  PROVE  /\ MachineOK(m)' /\ [FirstBidWins /\ EndedStaysEnded]_nvars
         /\ OpensAboveReserve(m) => OpensAboveReserve(m)'
<1> DEFINE Goal == /\ MachineOK(m') /\ FirstBidWins /\ EndedStaysEnded /\ m'.proto = m.proto
                   /\ m.proto = "DutchAuction" => m'.start = m.start /\ m'.reserve = m.reserve
<1>1. CASE UNCHANGED nvars
  BY <1>1 DEF nvars, MachineOK, EnglishOK, DutchOK, IteratedOK, FirstBidWins, EndedStaysEnded,
              IsComplete, OpensAboveReserve
<1>2. ASSUME NEW msg \in Messages, Receive(msg)
      PROVE  Goal
  <2>1. Accepts(m, msg) /\ m' = Process(m, msg)
    BY <1>2 DEF Receive, To
  <2>2. MachineOK(m') /\ EndedStaysEnded /\ m'.proto = m.proto
    BY <2>1, MessageOK DEF EndedStaysEnded
  <2>3. FirstBidWins /\ (m.proto = "DutchAuction" => m'.start = m.start /\ m'.reserve = m.reserve)
    BY <2>1, DutchMessage DEF FirstBidWins, MachineOK
  <2> QED BY <2>2, <2>3
<1>3. ASSUME ContractNetCall \/ EnglishCall \/ DutchCall \/ IteratedCall \/ BrokeringCall
               \/ RecruitingCall
      PROVE  Goal
  <2>1. CASE m.proto = "EnglishAuction" /\ m' \in EnglishResults(m)
    <3>1. m'.proto = "EnglishAuction" /\ EnglishOK(m')
      BY <2>1, EnglishBid, EnglishClose, NegotiationAssumption DEF EnglishResults, MachineOK
    <3> QED BY <2>1, <3>1, EndedCalls DEF MachineOK, EnglishOK, Kinds, FirstBidWins,
               EndedStaysEnded
  <2>2. CASE m.proto = "DutchAuction" /\ m' \in DutchResults(m)
    <3>1. /\ m'.proto = "DutchAuction" /\ DutchOK(m') /\ FirstBidWins
          /\ m'.start = m.start /\ m'.reserve = m.reserve
      BY <2>2, DutchCalls DEF MachineOK, FirstBidWins
    <3> QED BY <2>2, <3>1, EndedCalls DEF MachineOK, DutchOK, Kinds, EndedStaysEnded
  <2>3. CASE m.proto = "IteratedContractNet" /\ m' \in {StartRound(m)} \cup IteratedResults(m)
    <3>1. m'.proto = "IteratedContractNet" /\ IteratedOK(m')
      BY <2>3, IteratedRound, IteratedCalls DEF MachineOK
    <3> QED BY <2>3, <3>1, EndedCalls DEF MachineOK, IteratedOK, Kinds, FirstBidWins,
               EndedStaysEnded
  <2>4. CASE m.proto \in OtherKinds /\ m' \in OtherResults(m)
    <3>1. MachineOK(m') /\ m'.proto = m.proto /\ m'.state = m.state
      BY <2>4, OtherCallOK
    <3> QED BY <2>4, <3>1 DEF OtherKinds, FirstBidWins, EndedStaysEnded, IsComplete
  <2>5. CASE m.proto = "Brokering" /\ m' = Consolidate(m)
    <3>1. MachineOK(m') /\ m'.proto = m.proto
      BY <2>5, OtherCallOK DEF OtherKinds
    <3> QED BY <2>5, <3>1, EndedCalls DEF FirstBidWins, EndedStaysEnded
  <2>6. CASE m.proto = "Recruiting" /\ m' = CompleteSearch(m)
    <3>1. MachineOK(m') /\ m'.proto = m.proto
      BY <2>6, OtherCallOK DEF OtherKinds
    <3> QED BY <2>6, <3>1, EndedCalls DEF FirstBidWins, EndedStaysEnded
  <2> QED BY <1>3, <2>1, <2>2, <2>3, <2>4, <2>5, <2>6, CallCases
<1>4. ASSUME Goal
      PROVE  /\ MachineOK(m)' /\ FirstBidWins /\ EndedStaysEnded
             /\ OpensAboveReserve(m) => OpensAboveReserve(m)'
  BY <1>4 DEF MachineOK, EnglishOK, DutchOK, IteratedOK, OpensAboveReserve
<1> QED BY <1>1, <1>2, <1>3, <1>4 DEF NNext

\* The invariant of the machine is more than NegotiationSound asks.
LEMMA MachineSound ==
  ASSUME MachineOK(m), OpensAboveReserve(m)
  PROVE  NegotiationSound
<1>1. ASSUME m.proto = "EnglishAuction"
      PROVE  /\ \A i \in 1 .. Len(m.bids) - 1 : m.bids[i + 1].amount >= m.bids[i].amount + m.inc
             /\ m.winner # None =>
                  /\ m.bids # <<>> /\ m.winner = Some(Last(m.bids).bidder)
                  /\ m.reserve # None => Last(m.bids).amount >= m.reserve[1]
                  /\ Head(m.bids).amount >= m.start
  <2>1. EnglishOK(m)
    BY <1>1 DEF MachineOK
  <2>2. m.bids # <<>> => Head(m.bids) = m.bids[1]
    BY <2>1 DEF EnglishOK
  <2> QED BY <2>1, <2>2 DEF EnglishOK, Last
<1>2. ASSUME m.proto = "DutchAuction", m.sale # None
      PROVE  /\ m.sale[1] >= m.reserve /\ m.winner # None
             /\ m.prices # <<>> => m.sale = Some(Last(m.prices))
  <2>1. DutchOK(m)
    BY <1>2 DEF MachineOK
  <2> QED BY <1>2, <2>1 DEF DutchOK, Last, Some, OpensAboveReserve
<1>3. ASSUME m.proto = "IteratedContractNet"
      PROVE  /\ m.selected # None => m.selected[1] \in m.proposals
             /\ \A i \in DOMAIN m.rounds :
                  /\ m.rounds[i].round < m.round /\ m.rounds[i].proposals # {}
                  /\ i > 1 => m.rounds[i - 1].round < m.rounds[i].round
  <2>1. IteratedOK(m)
    BY <1>3 DEF MachineOK
  <2>2. DOMAIN m.rounds = 1 .. Len(m.rounds)
    BY <2>1 DEF IteratedOK
  <2> QED BY <2>1, <2>2 DEF IteratedOK
<1>4. AuctionSound
  BY <1>1, <1>2 DEF AuctionSound
<1>5. ContractorProposed
  BY <1>3 DEF ContractorProposed
<1> QED BY <1>4, <1>5 DEF NegotiationSound

(* Where every Dutch auction is opened at or above its reserve (its
   constructor does not ask for it), the outcome of a negotiation follows
   from the offers made in it: an English auction's winner made the last and
   highest bid, over increment and reserve, a Dutch auction sells at a price
   its rounds came down to and never under the reserve, and the contractor
   of an iterated contract net proposed in the round it was chosen in. *)
THEOREM NegotiationSoundHolds ==
  ASSUME \A x \in Openings : OpensAboveReserve(x)
  PROVE  NSpec => []NegotiationSound
<1>1. NInit => MachineOK(m) /\ OpensAboveReserve(m)
  BY OpeningsOK DEF NInit
<1> QED BY <1>1, NegotiationStep, MachineSound, PTL DEF NSpec

(* Whatever messages and owner's calls come late, twice or out of order, no
   conversation of the ten protocols is reopened once is_complete holds, and
   the first bidder to accept a Dutch auction's price stays its winner. *)
THEOREM SettledStaysHolds == NSpec => SettledStays
<1>1. NInit => MachineOK(m)
  BY OpeningsOK DEF NInit
<1> QED BY <1>1, NegotiationStep, PTL DEF NSpec, SettledStays

-----------------------------------------------------------------------------
(* The conversations of an agent actor *)

\* Where a message takes the machines in the states S.
Moved(p, S, perf) == UNION {Targets(p, TRUE, s, perf) : s \in S}

\* The function the fold of Replay chooses: the states after the messages at a set of places.
ReplaySets(g, p, hist, D) ==
  g = [s \in D |-> IF s = {} THEN {"not_started"} ELSE Moved(p, g[s \ {Max(s)}], hist[Max(s)])]

\* Replaying a history is the function that the fold over its places chooses.
LEMMA ReplayIs ==
  ASSUME NEW p, NEW hist
  PROVE  Replay(p, hist) = (CHOOSE g : ReplaySets(g, p, hist, SUBSET DOMAIN hist))[DOMAIN hist]
BY DEF Replay, FoldLeft, MapThenFoldSet, ReplaySets, Moved

\* For every length there is such a function: one place more extends it, by induction.
LEMMA ReplayExists ==
  ASSUME NEW p, NEW hist, NEW n \in Nat
  PROVE  \E g : ReplaySets(g, p, hist, SUBSET (1 .. n))
<1> DEFINE Good == {k \in Nat : \E g : ReplaySets(g, p, hist, SUBSET (1 .. k))}
<1>1. 0 \in Good
  <2>1. ReplaySets([s \in SUBSET (1 .. 0) |-> {"not_started"}], p, hist, SUBSET (1 .. 0))
    <3>1. \A s \in SUBSET (1 .. 0) : s = {}
      OBVIOUS
    <3> QED BY <3>1 DEF ReplaySets
  <2> QED BY <2>1
<1>2. ASSUME NEW k \in Nat, k \in Good
      PROVE  k + 1 \in Good
  <2>1. PICK g : ReplaySets(g, p, hist, SUBSET (1 .. k))
    BY <1>2
  <2>2. PICK h : h = [s \in SUBSET (1 .. k + 1) |->
                        IF k + 1 \in s THEN Moved(p, g[s \ {k + 1}], hist[k + 1]) ELSE g[s]]
    OBVIOUS
  <2>3. ASSUME NEW s \in SUBSET (1 .. k + 1)
        PROVE  h[s] = IF s = {} THEN {"not_started"} ELSE Moved(p, h[s \ {Max(s)}], hist[Max(s)])
    <3>1. CASE k + 1 \in s
      <4>1. Max(s) = k + 1 /\ s # {}
        BY <3>1, MaxOfUpTo
      <4>2. s \ {k + 1} \in SUBSET (1 .. k) /\ s \ {k + 1} \in SUBSET (1 .. k + 1)
        OBVIOUS
      <4>3. h[s \ {k + 1}] = g[s \ {k + 1}]
        BY <2>2, <4>2
      <4>4. h[s] = Moved(p, g[s \ {k + 1}], hist[k + 1])
        BY <2>2, <3>1
      <4> QED BY <4>1, <4>3, <4>4
    <3>2. CASE k + 1 \notin s
      <4>1. s \in SUBSET (1 .. k)
        BY <3>2
      <4>2. g[s] = IF s = {} THEN {"not_started"} ELSE Moved(p, g[s \ {Max(s)}], hist[Max(s)])
        BY <2>1, <4>1 DEF ReplaySets
      <4>3. h[s] = g[s]
        BY <2>2, <3>2
      <4>4. s # {} => h[s \ {Max(s)}] = g[s \ {Max(s)}]
        BY <2>2, <3>2
      <4> QED BY <4>2, <4>3, <4>4
    <3> QED BY <3>1, <3>2
  <2>4. ReplaySets(h, p, hist, SUBSET (1 .. k + 1))
    <3>1. h = [s \in SUBSET (1 .. k + 1) |-> h[s]]
      BY <2>2
    <3>2. [s \in SUBSET (1 .. k + 1) |-> h[s]]
            = [s \in SUBSET (1 .. k + 1) |->
                 IF s = {} THEN {"not_started"} ELSE Moved(p, h[s \ {Max(s)}], hist[Max(s)])]
      BY <2>3
    <3> QED BY <3>1, <3>2 DEF ReplaySets
  <2> QED BY <2>4
<1>3. Nat \subseteq Good
  <2> HIDE DEF Good
  <2> QED BY <1>1, <1>2, NatSetInduction
<1> QED BY <1>3

\* at[i]: the states after the first i messages.
ReplayedBy(at, p, hist) ==
    /\ at[0] = {"not_started"}
    /\ \A i \in 1 .. Len(hist) : at[i] = Moved(p, at[i - 1], hist[i])

\* So replaying a history is a run along it, one message at a time.
LEMMA ReplayRuns ==
  ASSUME NEW p, NEW X, NEW hist \in Seq(X)
  PROVE  \E at : ReplayedBy(at, p, hist) /\ Replay(p, hist) = at[Len(hist)]
<1> DEFINE n == Len(hist)
<1>1. n \in Nat /\ DOMAIN hist = 1 .. n
  OBVIOUS
<1> HIDE DEF n
<1>2. PICK g : /\ ReplaySets(g, p, hist, SUBSET (1 .. n))
               /\ Replay(p, hist) = g[1 .. n]
  <2>1. \E g : ReplaySets(g, p, hist, SUBSET (1 .. n))
    BY <1>1, ReplayExists
  <2>2. PICK g : g = CHOOSE h : ReplaySets(h, p, hist, SUBSET (1 .. n))
    OBVIOUS
  <2>3. ReplaySets(g, p, hist, SUBSET (1 .. n))
    BY <2>1, <2>2
  <2>4. Replay(p, hist) = g[1 .. n]
    BY <1>1, <2>2, ReplayIs
  <2> QED BY <2>3, <2>4
<1>3. PICK at : at = [i \in 0 .. n |-> g[1 .. i]]
  OBVIOUS
<1>4. at[0] = {"not_started"}
  <2>1. 1 .. 0 = {} /\ {} \in SUBSET (1 .. n) /\ 0 \in 0 .. n
    BY <1>1
  <2> QED BY <1>2, <1>3, <2>1 DEF ReplaySets
<1>5. ASSUME NEW i \in 1 .. n
      PROVE  at[i] = Moved(p, at[i - 1], hist[i])
  <2>1. /\ i - 1 \in Nat /\ i \in 0 .. n /\ i - 1 \in 0 .. n
        /\ 1 .. i \in SUBSET (1 .. n) /\ 1 .. i # {}
        /\ (1 .. i) \ {i} = 1 .. i - 1 /\ Max(1 .. i) = i
    BY <1>1, UpTo
  <2>3. g[1 .. i] = Moved(p, g[(1 .. i) \ {Max(1 .. i)}], hist[Max(1 .. i)])
    <3>1. PICK s : s = 1 .. i
      OBVIOUS
    <3>2. s \in SUBSET (1 .. n) /\ s # {}
      BY <2>1, <3>1
    <3>3. g[s] = Moved(p, g[s \ {Max(s)}], hist[Max(s)])
      BY ONLY <1>2, <3>2 DEF ReplaySets
    <3> QED BY <3>1, <3>3
  <2> QED BY <1>3, <2>1, <2>3
<1>6. at[n] = Replay(p, hist)
  BY <1>1, <1>2, <1>3
<1> QED BY <1>4, <1>5, <1>6 DEF ReplayedBy, n

\* No message: the machine has not started.
LEMMA ReplayEmpty ==
  ASSUME NEW p
  PROVE  Replay(p, <<>>) = {"not_started"}
<1>1. <<>> \in Seq({}) /\ Len(<<>>) = 0
  OBVIOUS
<1>2. PICK at : ReplayedBy(at, p, <<>>) /\ Replay(p, <<>>) = at[Len(<<>>)]
  BY <1>1, ReplayRuns
<1> QED BY <1>1, <1>2 DEF ReplayedBy

\* One more message moves every state the history leads to.
LEMMA ReplayAppend ==
  ASSUME NEW p, NEW X, NEW hist \in Seq(X), NEW e \in X
  PROVE  Replay(p, Append(hist, e)) = Moved(p, Replay(p, hist), e)
<1>1. PICK at : ReplayedBy(at, p, hist) /\ Replay(p, hist) = at[Len(hist)]
  BY ReplayRuns
<1>2. PICK new : ReplayedBy(new, p, Append(hist, e))
                 /\ Replay(p, Append(hist, e)) = new[Len(Append(hist, e))]
  <2>1. Append(hist, e) \in Seq(X)
    OBVIOUS
  <2> QED BY <2>1, ReplayRuns
<1>3. /\ Len(hist) \in Nat /\ Len(Append(hist, e)) = Len(hist) + 1
      /\ \A i \in 1 .. Len(hist) : Append(hist, e)[i] = hist[i]
      /\ Append(hist, e)[Len(hist) + 1] = e
  OBVIOUS
<1> DEFINE Same == {k \in Nat : k <= Len(hist) => new[k] = at[k]}
<1>4. 0 \in Same
  BY <1>1, <1>2 DEF ReplayedBy
<1>5. ASSUME NEW k \in Nat, k \in Same
      PROVE  k + 1 \in Same
  <2>1. SUFFICES ASSUME k + 1 <= Len(hist)
                 PROVE  new[k + 1] = at[k + 1]
    OBVIOUS
  <2>2. /\ k + 1 \in 1 .. Len(hist) /\ k + 1 \in 1 .. Len(Append(hist, e)) /\ k + 1 - 1 = k
        /\ new[k] = at[k] /\ Append(hist, e)[k + 1] = hist[k + 1]
    BY <1>3, <1>5, <2>1
  <2>3. at[k + 1] = Moved(p, at[k + 1 - 1], hist[k + 1])
    BY <1>1, <2>2 DEF ReplayedBy
  <2>4. new[k + 1] = Moved(p, new[k + 1 - 1], Append(hist, e)[k + 1])
    BY <1>2, <2>2 DEF ReplayedBy
  <2> QED BY <2>2, <2>3, <2>4
<1>6. Len(hist) \in Same
  <2> HIDE DEF Same
  <2> QED BY <1>3, <1>4, <1>5, NatSetInduction
<1>7. new[Len(hist) + 1] = Moved(p, new[Len(hist) + 1 - 1], Append(hist, e)[Len(hist) + 1])
  BY <1>2, <1>3 DEF ReplayedBy
<1>8. Len(hist) + 1 - 1 = Len(hist)
  BY <1>3
<1> QED BY <1>1, <1>2, <1>3, <1>6, <1>7, <1>8

\* The tick's fold: a function that handles, of every set of the mailbox's places, the messages there
\* in order.
Handlings(g, st, box, D) ==
  g = [s \in D |-> IF s = {} THEN st ELSE HandleAcl(g[s \ {Max(s)}], box[Max(s)])]

\* The same for the fold of the mailbox: the function it chooses exists for every length.
LEMMA HandlingsExist ==
  ASSUME NEW st, NEW box, NEW n \in Nat
  PROVE  \E g : Handlings(g, st, box, SUBSET (1 .. n))
<1> DEFINE Good == {k \in Nat : \E g : Handlings(g, st, box, SUBSET (1 .. k))}
<1>1. 0 \in Good
  <2>1. Handlings([s \in SUBSET (1 .. 0) |-> st], st, box, SUBSET (1 .. 0))
    <3>1. \A s \in SUBSET (1 .. 0) : s = {}
      OBVIOUS
    <3> QED BY <3>1 DEF Handlings
  <2> QED BY <2>1
<1>2. ASSUME NEW k \in Nat, k \in Good
      PROVE  k + 1 \in Good
  <2>1. PICK g : Handlings(g, st, box, SUBSET (1 .. k))
    BY <1>2
  <2>2. PICK h : h = [s \in SUBSET (1 .. k + 1) |->
                        IF k + 1 \in s THEN HandleAcl(g[s \ {k + 1}], box[k + 1]) ELSE g[s]]
    OBVIOUS
  <2>3. ASSUME NEW s \in SUBSET (1 .. k + 1)
        PROVE  h[s] = IF s = {} THEN st ELSE HandleAcl(h[s \ {Max(s)}], box[Max(s)])
    <3>1. CASE k + 1 \in s
      <4>1. Max(s) = k + 1 /\ s # {}
        BY <3>1, MaxOfUpTo
      <4>2. s \ {k + 1} \in SUBSET (1 .. k) /\ s \ {k + 1} \in SUBSET (1 .. k + 1)
        OBVIOUS
      <4>3. h[s \ {k + 1}] = g[s \ {k + 1}]
        BY <2>2, <4>2
      <4>4. h[s] = HandleAcl(g[s \ {k + 1}], box[k + 1])
        BY <2>2, <3>1
      <4> QED BY <4>1, <4>3, <4>4
    <3>2. CASE k + 1 \notin s
      <4>1. s \in SUBSET (1 .. k)
        BY <3>2
      <4>2. g[s] = IF s = {} THEN st ELSE HandleAcl(g[s \ {Max(s)}], box[Max(s)])
        BY <2>1, <4>1 DEF Handlings
      <4>3. h[s] = g[s]
        BY <2>2, <3>2
      <4>4. s # {} => h[s \ {Max(s)}] = g[s \ {Max(s)}]
        BY <2>2, <3>2
      <4> QED BY <4>2, <4>3, <4>4
    <3> QED BY <3>1, <3>2
  <2>4. Handlings(h, st, box, SUBSET (1 .. k + 1))
    <3>1. h = [s \in SUBSET (1 .. k + 1) |-> h[s]]
      BY <2>2
    <3>2. [s \in SUBSET (1 .. k + 1) |-> h[s]]
            = [s \in SUBSET (1 .. k + 1) |->
                 IF s = {} THEN st ELSE HandleAcl(h[s \ {Max(s)}], box[Max(s)])]
      BY <2>3
    <3> QED BY <3>1, <3>2 DEF Handlings
  <2> QED BY <2>4
<1>3. Nat \subseteq Good
  <2> HIDE DEF Good
  <2> QED BY <1>1, <1>2, NatSetInduction
<1> QED BY <1>3

HandledOf(st, box) == FoldLeft(HandleAcl, st, box)

\* Handling a mailbox is that function at all the mailbox's places.
LEMMA HandledIs ==
  ASSUME NEW st, NEW box
  PROVE  HandledOf(st, box) = (CHOOSE g : Handlings(g, st, box, SUBSET DOMAIN box))[DOMAIN box]
BY DEF HandledOf, FoldLeft, MapThenFoldSet, Handlings

\* at[i]: the state after the first i messages of the mailbox.
HandledBy(at, st, box) ==
    /\ at[0] = st
    /\ \A i \in 1 .. Len(box) : at[i] = HandleAcl(at[i - 1], box[i])

\* So handling a mailbox is a run along it, one message at a time.
LEMMA HandledRuns ==
  ASSUME NEW st, NEW X, NEW box \in Seq(X)
  PROVE  \E at : HandledBy(at, st, box) /\ HandledOf(st, box) = at[Len(box)]
<1> DEFINE n == Len(box)
<1>1. n \in Nat /\ DOMAIN box = 1 .. n
  OBVIOUS
<1> HIDE DEF n
<1>2. PICK g : /\ Handlings(g, st, box, SUBSET (1 .. n))
               /\ HandledOf(st, box) = g[1 .. n]
  <2>1. \E g : Handlings(g, st, box, SUBSET (1 .. n))
    BY <1>1, HandlingsExist
  <2>2. PICK g : g = CHOOSE h : Handlings(h, st, box, SUBSET (1 .. n))
    OBVIOUS
  <2>3. Handlings(g, st, box, SUBSET (1 .. n))
    BY <2>1, <2>2
  <2>4. HandledOf(st, box) = g[1 .. n]
    BY <1>1, <2>2, HandledIs
  <2> QED BY <2>3, <2>4
<1>3. PICK at : at = [i \in 0 .. n |-> g[1 .. i]]
  OBVIOUS
<1>4. at[0] = st
  <2>1. 1 .. 0 = {} /\ {} \in SUBSET (1 .. n) /\ 0 \in 0 .. n
    BY <1>1
  <2> QED BY <1>2, <1>3, <2>1 DEF Handlings
<1>5. ASSUME NEW i \in 1 .. n
      PROVE  at[i] = HandleAcl(at[i - 1], box[i])
  <2>1. /\ i - 1 \in Nat /\ i \in 0 .. n /\ i - 1 \in 0 .. n
        /\ 1 .. i \in SUBSET (1 .. n) /\ 1 .. i # {}
        /\ (1 .. i) \ {i} = 1 .. i - 1 /\ Max(1 .. i) = i
    BY <1>1, UpTo
  <2>3. g[1 .. i] = HandleAcl(g[(1 .. i) \ {Max(1 .. i)}], box[Max(1 .. i)])
    <3>1. PICK s : s = 1 .. i
      OBVIOUS
    <3>2. s \in SUBSET (1 .. n) /\ s # {}
      BY <2>1, <3>1
    <3>3. g[s] = HandleAcl(g[s \ {Max(s)}], box[Max(s)])
      BY ONLY <1>2, <3>2 DEF Handlings
    <3> QED BY <3>1, <3>3
  <2> QED BY <1>3, <2>1, <2>3
<1>6. at[n] = HandledOf(st, box)
  BY <1>1, <1>2, <1>3
<1> QED BY <1>4, <1>5, <1>6 DEF HandledBy, n

-----------------------------------------------------------------------------
Started4 == {"Request", "Query", "ContractNet", "Subscribe"}

\* Of the four protocols create_state_machine knows, the tables are deterministic and ask nothing of
\* can_continue, and an ended conversation only ends again, badly.
LEMMA StartedTargets ==
  ASSUME NEW p \in Started4, NEW c, NEW s, NEW perf, NEW t \in Targets(p, c, s, perf)
  PROVE  /\ Targets(p, TRUE, s, perf) = {t}
         /\ s \in Ends[p].good \cup Ends[p].bad => t \in Ends[p].bad
<1>1. ASSUME NEW r \in Rows(p, TRUE)
      PROVE  /\ r[1] \notin Ends[p].good \cup Ends[p].bad
             /\ \A q \in Rows(p, TRUE) : q[1] = r[1] /\ q[2] = r[2] => q[3] = r[3]
  <2>1. CASE p = "Request"
    BY <1>1, <2>1 DEF Rows, RequestRows, Row, Ends, RequestEnds
  <2>2. CASE p = "Query"
    BY <1>1, <2>2 DEF Rows, QueryRows, Row, Ends, QueryEnds
  <2>3. CASE p = "ContractNet"
    BY <1>1, <2>3 DEF Rows, ContractNetRows, Row, Ends, ContractNetEnds
  <2>4. CASE p = "Subscribe"
    BY <1>1, <2>4 DEF Rows, SubscribeRows, Row, Ends, SubscribeEnds
  <2> QED BY <2>1, <2>2, <2>3, <2>4 DEF Started4
<1>2. ASSUME NEW w \in Wildcards[p]
      PROVE  w[2] \in Ends[p].bad /\ \A v \in Wildcards[p] : v[2] = w[2]
  <2>1. CASE p \in {"Query", "ContractNet"}
    BY <2>1 DEF Wildcards
  <2>2. CASE p = "Request"
    BY <2>2 DEF Wildcards, Ends, RequestEnds
  <2>3. CASE p = "Subscribe"
    BY <2>3 DEF Wildcards, Ends, SubscribeEnds
  <2> QED BY <2>1, <2>2, <2>3 DEF Started4
<1>3. Rows(p, c) = Rows(p, TRUE)
  BY DEF Rows, Started4
<1> DEFINE named == {r[3] : r \in {q \in Rows(p, TRUE) : q[1] = s /\ q[2] = perf}}
           wild == {w[2] : w \in {v \in Wildcards[p] : v[1] = perf}}
<1>4. /\ Targets(p, TRUE, s, perf) = IF named # {} THEN named ELSE wild
      /\ t \in IF named # {} THEN named ELSE wild
  BY <1>3 DEF Targets
<1>5. CASE named # {}
  <2>1. \A y \in named : y = t
    BY <1>1, <1>4, <1>5
  <2>2. s \notin Ends[p].good \cup Ends[p].bad
    BY <1>1, <1>5
  <2> QED BY <1>4, <1>5, <2>1, <2>2
<1>6. CASE named = {}
  <2>1. \A y \in wild : y = t
    BY <1>2, <1>4, <1>6
  <2>2. t \in Ends[p].bad
    BY <1>2, <1>4, <1>6
  <2> QED BY <1>4, <1>6, <2>1, <2>2
<1> QED BY <1>5, <1>6

Heard == {msg.perf : msg \in Inbox}

\* What holds of a conversation of the actor: its history, replayed, gives its state.
ConvOK(x) ==
  /\ {"proto", "state", "hist", "parts"} \subseteq DOMAIN x
  /\ x.proto \in Started4 /\ x.hist \in Seq(Heard)
  /\ Replay(x.proto, x.hist) = {x.state}

\* process keeps the history of a conversation its state's, and completes no conversation twice.
LEMMA ConvProcess ==
  ASSUME NEW x, ConvOK(x), NEW msg \in Inbox, Accepts(x, msg)
  PROVE  /\ ConvOK(Process(x, msg))
         /\ IsComplete(x) => IsFailed(Process(x, msg))
<1>1. PICK to \in Targets(x.proto, CanContinue(x), x.state, msg.perf) :
        Process(x, msg) = [Effect(RecordMessage(x, msg), msg, to) EXCEPT !.state = to]
  BY ProcessIs
<1>2. PICK r : r = RecordMessage(x, msg)
  OBVIOUS
<1>3. /\ DOMAIN r = DOMAIN x /\ r.proto = x.proto /\ r.hist = Append(x.hist, msg.perf)
      /\ {"proto", "state", "hist", "parts"} \subseteq DOMAIN x
      /\ x.proto \in Started4 /\ x.proto \in Kinds
  BY <1>2 DEF RecordMessage, ConvOK, Started4, Kinds
<1>4. PICK e : e = Effect(r, msg, to)
  OBVIOUS
<1>5. DOMAIN e = DOMAIN x /\ e.proto = x.proto /\ e.hist = Append(x.hist, msg.perf)
  BY <1>3, <1>4, EffectKeeps
<1>6. PICK y : y = Process(x, msg)
  OBVIOUS
<1>7. y = [e EXCEPT !.state = to]
  BY <1>1, <1>2, <1>4, <1>6
<1>8. DOMAIN y = DOMAIN x /\ y.proto = x.proto /\ y.state = to
      /\ y.hist = Append(x.hist, msg.perf)
  BY <1>3, <1>5, <1>7
<1>9. /\ Targets(x.proto, TRUE, x.state, msg.perf) = {to}
      /\ x.state \in Ends[x.proto].good \cup Ends[x.proto].bad => to \in Ends[x.proto].bad
  BY <1>1, <1>3, StartedTargets
<1>10. Replay(x.proto, Append(x.hist, msg.perf)) = {to}
  <2>1. msg.perf \in Heard /\ x.hist \in Seq(Heard) /\ Replay(x.proto, x.hist) = {x.state}
    BY DEF Heard, ConvOK
  <2>2. Replay(x.proto, Append(x.hist, msg.perf)) = Moved(x.proto, {x.state}, msg.perf)
    <3>1. Replay(x.proto, Append(x.hist, msg.perf))
            = Moved(x.proto, Replay(x.proto, x.hist), msg.perf)
      <4>1. ASSUME NEW p, NEW h \in Seq(Heard), NEW w \in Heard
            PROVE  Replay(p, Append(h, w)) = Moved(p, Replay(p, h), w)
        BY ONLY ReplayAppend
      <4> QED BY ONLY <2>1, <4>1
    <3> QED BY ONLY <2>1, <3>1
  <2>3. Moved(x.proto, {x.state}, msg.perf) = Targets(x.proto, TRUE, x.state, msg.perf)
    BY DEF Moved
  <2> QED BY <1>9, <2>2, <2>3
<1>11. Append(x.hist, msg.perf) \in Seq(Heard)
  BY DEF Heard, ConvOK
<1>12. ConvOK(y)
  BY <1>3, <1>8, <1>10, <1>11 DEF ConvOK
<1> QED BY <1>6, <1>8, <1>9, <1>12 DEF IsComplete, IsFailed

Tallies == [received : Nat, sent : Nat, started : Nat, completed : Nat, errors : Nat]
Completed(cs) == {c \in 1 .. Len(cs) : IsComplete(cs[c])}

\* What holds of the conversations and the counts between any two messages of a tick.
ActorOK(cs, tally) ==
  /\ \E S : cs \in Seq(S)
  /\ tally \in Tallies
  /\ \A c \in 1 .. Len(cs) : ConvOK(cs[c])
  /\ tally.started = Len(cs) /\ tally.completed <= Cardinality(Completed(cs))

StOK(st) == {"convs", "stats"} \subseteq DOMAIN st /\ ActorOK(st.convs, st.stats)

\* Counting a message changes neither the conversations nor what was completed.
LEMMA CountOK ==
  ASSUME NEW st, StOK(st), NEW f \in {"received", "sent", "errors"}
  PROVE  StOK(Count(st, f)) /\ Count(st, f).convs = st.convs
<1>1. PICK y : y = Count(st, f)
  OBVIOUS
<1>2. y = [st EXCEPT !.stats[f] = @ + 1]
  BY <1>1 DEF Count
<1>3. DOMAIN y = DOMAIN st /\ y.convs = st.convs /\ y.stats = [st.stats EXCEPT ![f] = @ + 1]
  BY <1>2 DEF StOK
<1>4. st.stats \in Tallies
  BY DEF StOK, ActorOK
<1>5. /\ y.stats \in Tallies /\ y.stats.started = st.stats.started
      /\ y.stats.completed = st.stats.completed
  <2>1. PICK tl \in Tallies : tl = st.stats
    BY <1>4
  <2>2. PICK tm : tm = [tl EXCEPT ![f] = @ + 1]
    OBVIOUS
  <2>3. tm \in Tallies /\ tm.started = tl.started /\ tm.completed = tl.completed
    BY ONLY <2>2, f \in {"received", "sent", "errors"}, tl \in Tallies DEF Tallies
  <2> QED BY <1>3, <2>1, <2>2, <2>3
<1>6. StOK(y)
  BY <1>3, <1>5 DEF StOK, ActorOK
<1> QED BY <1>1, <1>3, <1>6

\* A message of a conversation, accepted or refused, keeps the invariant: it counts a completion only
\* if it completed the conversation.
LEMMA ConversationOK ==
  ASSUME NEW st, StOK(st), NEW msg \in Inbox, msg.conv \in DOMAIN st.convs
  PROVE  StOK(ToConversation(st, msg))
<1> DEFINE c == msg.conv
           cs == st.convs
<1>1. PICK S : cs \in Seq(S)
  BY DEF StOK, ActorOK
<1>2. c \in 1 .. Len(cs) /\ Len(cs) \in Nat /\ ConvOK(cs[c]) /\ st.stats \in Tallies
      /\ {"convs", "stats"} \subseteq DOMAIN st
  BY <1>1 DEF StOK, ActorOK
<1>3. PICK x : x = cs[c]
  OBVIOUS
<1>4. PICK y : y = Process(x, msg)
  OBVIOUS
<1>5. PICK mid : mid = [st EXCEPT !.convs[c] = Process(@, msg)]
  OBVIOUS
<1>6. /\ DOMAIN mid = DOMAIN st /\ mid.stats = st.stats
      /\ mid.convs = [cs EXCEPT ![c] = y]
  BY <1>2, <1>3, <1>4, <1>5
<1>7. /\ mid.convs \in Seq(S \cup {y}) /\ Len(mid.convs) = Len(cs) /\ mid.convs[c] = y
      /\ \A d \in 1 .. Len(cs) : d # c => mid.convs[d] = cs[d]
  BY <1>1, <1>2, <1>6
<1>8. ConvOK(y) /\ (Accepts(x, msg) /\ IsComplete(x) => IsFailed(y)) /\ (~ Accepts(x, msg) => y = x)
  <2>1. CASE Accepts(x, msg)
    BY <1>2, <1>3, <1>4, <2>1, ConvProcess
  <2>2. CASE ~ Accepts(x, msg)
    BY <1>2, <1>3, <1>4, <2>2 DEF Process
  <2> QED BY <2>1, <2>2
<1>9. IsFailed(y) => IsComplete(y)
  BY DEF IsFailed, IsComplete
<1>10. /\ IsFiniteSet(Completed(cs)) /\ Cardinality(Completed(cs)) \in Nat
       /\ IsFiniteSet(Completed(mid.convs)) /\ Cardinality(Completed(mid.convs)) \in Nat
  <2>1. IsFiniteSet(1 .. Len(cs))
    BY <1>2, FS_Interval
  <2>2. Completed(cs) \subseteq 1 .. Len(cs) /\ Completed(mid.convs) \subseteq 1 .. Len(cs)
    BY <1>7 DEF Completed
  <2> QED BY <2>1, <2>2, FS_Subset, FS_CardinalityType
<1>11. Completed(cs) \subseteq Completed(mid.convs)
  BY <1>3, <1>7, <1>8, <1>9 DEF Completed
<1>12. Cardinality(Completed(cs)) <= Cardinality(Completed(mid.convs))
  BY <1>10, <1>11, FS_Subset
<1>13. StOK(mid)
  <2>1. \A d \in 1 .. Len(mid.convs) : ConvOK(mid.convs[d])
    BY <1>7, <1>8 DEF StOK, ActorOK
  <2>2. st.stats.completed \in Nat /\ st.stats.completed <= Cardinality(Completed(cs))
        /\ st.stats.started = Len(cs)
    BY <1>2 DEF StOK, ActorOK, Tallies
  <2>3. mid.stats.completed <= Cardinality(Completed(mid.convs))
    BY <1>6, <1>10, <1>12, <2>2
  <2> QED BY <1>2, <1>6, <1>7, <2>1, <2>2, <2>3 DEF StOK, ActorOK
<1>14. CASE ~ Accepts(x, msg)
  <2>1. ToConversation(st, msg) = Count(mid, "errors")
    BY <1>3, <1>5, <1>14 DEF ToConversation
  <2> QED BY <1>13, <2>1, CountOK
<1>15. CASE Accepts(x, msg)
  <2>1. ToConversation(st, msg) = ProtocolResult(mid, c)
    BY <1>3, <1>5, <1>15 DEF ToConversation
  <2>2. CASE ProcessResult(y) = "failed"
    <3>1. ProtocolResult(mid, c) = Count(mid, "errors")
      BY <1>7, <2>2 DEF ProtocolResult
    <3> QED BY <1>13, <2>1, <3>1, CountOK
  <2>3. CASE ProcessResult(y) \notin {"failed", "complete"}
    <3>1. ProtocolResult(mid, c) = mid
      BY <1>7, <2>3 DEF ProtocolResult
    <3> QED BY <1>13, <2>1, <3>1
  <2>4. CASE ProcessResult(y) = "complete"
    <3>1. IsComplete(y) /\ ~ IsFailed(y)
      BY <2>4 DEF ProcessResult
    <3>2. ~ IsComplete(x)
      BY <1>8, <1>15, <3>1
    <3>3. c \notin Completed(cs) /\ Completed(mid.convs) = Completed(cs) \cup {c}
      BY <1>2, <1>3, <1>7, <3>1, <3>2 DEF Completed
    <3>4. Cardinality(Completed(mid.convs)) = Cardinality(Completed(cs)) + 1
      BY <1>10, <3>3, FS_AddElement
    <3>5. PICK z : z = Count(mid, "completed")
      OBVIOUS
    <3>6. z = [mid EXCEPT !.stats["completed"] = @ + 1]
      BY <3>5 DEF Count
    <3>7. /\ DOMAIN z = DOMAIN mid /\ z.convs = mid.convs
          /\ z.stats = [mid.stats EXCEPT !["completed"] = @ + 1]
      BY <1>2, <1>6, <3>6
    <3>8. /\ z.stats \in Tallies /\ z.stats.started = st.stats.started
          /\ z.stats.completed = st.stats.completed + 1 /\ st.stats.completed \in Nat
      <4>1. PICK tl \in Tallies : tl = st.stats
        BY <1>2
      <4>2. PICK tm : tm = [tl EXCEPT !["completed"] = @ + 1]
        OBVIOUS
      <4>3. tm \in Tallies /\ tm.started = tl.started /\ tm.completed = tl.completed + 1
            /\ tl.completed \in Nat
        BY ONLY <4>2, tl \in Tallies DEF Tallies
      <4> QED BY <1>6, <3>7, <4>1, <4>2, <4>3
    <3>9. st.stats.completed <= Cardinality(Completed(cs)) /\ st.stats.started = Len(cs)
      BY DEF StOK, ActorOK
    <3>10. z.stats.completed <= Cardinality(Completed(z.convs))
      BY <1>10, <3>4, <3>7, <3>8, <3>9
    <3>11. StOK(z)
      BY <1>7, <1>13, <3>7, <3>8, <3>9, <3>10 DEF StOK, ActorOK
    <3>12. ProtocolResult(mid, c) = z
      BY <1>7, <2>4, <3>5 DEF ProtocolResult
    <3> QED BY <2>1, <3>11, <3>12
  <2> QED BY <2>2, <2>3, <2>4
<1> QED BY <1>14, <1>15

\* handle_acl_message keeps it, whatever the content.
LEMMA HandleOK ==
  ASSUME NEW st, StOK(st), NEW msg \in Inbox
  PROVE  StOK(HandleAcl(st, msg))
<1>1. PICK mid : mid = Count(st, "received")
  OBVIOUS
<1>2. StOK(mid)
  BY <1>1, CountOK
<1>3. msg.content \in {"rejected", "decoded", "opaque"}
  BY ConversationAssumption
<1>4. \/ HandleAcl(st, msg) \in {mid, Count(mid, "errors"), Count(mid, "sent")}
      \/ msg.conv \in DOMAIN mid.convs /\ HandleAcl(st, msg) = ToConversation(mid, msg)
  BY <1>1, <1>3 DEF HandleAcl
<1> QED BY <1>2, <1>4, CountOK, ConversationOK

\* So does process_mailbox, over a mailbox of any length, by induction along it.
LEMMA TickOK ==
  ASSUME NEW st, StOK(st), NEW box \in Seq(Inbox)
  PROVE  StOK(HandledOf(st, box))
<1>1. PICK at : HandledBy(at, st, box) /\ HandledOf(st, box) = at[Len(box)]
  BY HandledRuns
<1>2. Len(box) \in Nat
  OBVIOUS
<1> DEFINE Good == {k \in Nat : k <= Len(box) => StOK(at[k])}
<1>3. 0 \in Good
  BY <1>1 DEF HandledBy
<1>4. ASSUME NEW k \in Nat, k \in Good
      PROVE  k + 1 \in Good
  <2>1. SUFFICES ASSUME k + 1 <= Len(box)
                 PROVE  StOK(at[k + 1])
    OBVIOUS
  <2>2. k + 1 \in 1 .. Len(box) /\ k + 1 - 1 = k /\ StOK(at[k]) /\ box[k + 1] \in Inbox
    BY <1>2, <1>4, <2>1
  <2>3. at[k + 1] = HandleAcl(at[k + 1 - 1], box[k + 1])
    BY <1>1, <2>2 DEF HandledBy
  <2> QED BY <2>2, <2>3, HandleOK
<1>5. Nat \subseteq Good
  <2> HIDE DEF Good
  <2> QED BY <1>3, <1>4, NatSetInduction
<1> QED BY <1>1, <1>2, <1>5

\* The inductive invariant of the actor.
ConversationInv == ActorOK(convs, stats) /\ mailbox \in Seq(Inbox)

\* The invariant holds before the first conversation.
LEMMA ConversationInit == CInit => ConversationInv
<1> SUFFICES ASSUME CInit
             PROVE  ConversationInv
  OBVIOUS
<1>1. /\ convs = <<>> /\ mailbox = <<>>
      /\ stats = [received |-> 0, sent |-> 0, started |-> 0, completed |-> 0, errors |-> 0]
  BY DEF CInit
<1>2. convs \in Seq({}) /\ Len(convs) = 0 /\ mailbox \in Seq(Inbox)
  BY <1>1
<1>3. stats \in Tallies /\ stats.started = 0 /\ stats.completed = 0
  BY <1>1 DEF Tallies
<1>4. Completed(convs) = {}
  BY <1>2 DEF Completed
<1>5. Cardinality(Completed(convs)) = 0
  BY <1>4, FS_EmptySet
<1>6. \A c \in 1 .. Len(convs) : ConvOK(convs[c])
  BY <1>2
<1>7. ActorOK(convs, stats)
  BY <1>2, <1>3, <1>5, <1>6 DEF ActorOK
<1> QED BY <1>2, <1>7 DEF ConversationInv

\* create_state_machine makes a machine whose empty history is its state's.
LEMMA CreatedOK ==
  ASSUME NEW p, CreateStateMachine(p) # None
  PROVE  ConvOK(CreateStateMachine(p)[1])
<1> DEFINE x == CreateStateMachine(p)[1]
<1>1. p \in Started4
  BY DEF CreateStateMachine, Started4
<1>2. /\ {"proto", "state", "hist", "parts"} \subseteq DOMAIN x
      /\ x.proto = p /\ x.state = "not_started" /\ x.hist = <<>>
  <2>1. CASE p = "Request"
    BY <2>1 DEF CreateStateMachine, Some, NewRequest, Base, Over
  <2>2. CASE p = "Query"
    BY <2>2 DEF CreateStateMachine, Some, NewQuery, Base, Over
  <2>3. CASE p = "ContractNet"
    BY <2>3 DEF CreateStateMachine, Some, NewContractNet, Base, Over
  <2>4. CASE p = "Subscribe"
    BY <2>4 DEF CreateStateMachine, Some, NewSubscribe, Base, Over
  <2> QED BY <1>1, <2>1, <2>2, <2>3, <2>4 DEF Started4
<1> HIDE DEF x
<1>3. ConvOK(x)
  BY <1>1, <1>2, ReplayEmpty DEF ConvOK
<1> QED BY <1>3 DEF x

\* Starting a conversation counts one more start and completes none.
LEMMA StartOK ==
  ASSUME ConversationInv, NEW p, StartConversation(p)
  PROVE  ConversationInv'
<1>1. PICK x : x = CreateStateMachine(p)[1]
  OBVIOUS
<1>2. ConvOK(x) /\ convs' = Append(convs, x) /\ stats' = [stats EXCEPT !.started = @ + 1]
      /\ mailbox' = mailbox
  BY <1>1, CreatedOK DEF StartConversation
<1>3. PICK S : convs \in Seq(S)
  BY DEF ConversationInv, ActorOK
<1>4. stats \in Tallies /\ stats.started = Len(convs)
      /\ stats.completed <= Cardinality(Completed(convs))
      /\ \A c \in 1 .. Len(convs) : ConvOK(convs[c])
  BY DEF ConversationInv, ActorOK
<1>5. /\ convs' \in Seq(S \cup {x}) /\ Len(convs') = Len(convs) + 1 /\ Len(convs) \in Nat
      /\ \A c \in 1 .. Len(convs) : convs'[c] = convs[c]
      /\ convs'[Len(convs) + 1] = x
  BY <1>2, <1>3
<1>6. \A c \in 1 .. Len(convs') : ConvOK(convs'[c])
  <2>1. \A c \in 1 .. Len(convs') : c \in 1 .. Len(convs) \/ c = Len(convs) + 1
    BY <1>5
  <2> QED BY <1>2, <1>4, <1>5, <2>1
<1>7. stats' \in Tallies /\ stats'.started = stats.started + 1
      /\ stats'.completed = stats.completed /\ stats.completed \in Nat
  BY <1>2, <1>4 DEF Tallies
<1>8. /\ Cardinality(Completed(convs)) \in Nat /\ Cardinality(Completed(convs')) \in Nat
      /\ Cardinality(Completed(convs)) <= Cardinality(Completed(convs'))
  <2>1. IsFiniteSet(1 .. Len(convs'))
    BY <1>5, FS_Interval
  <2>2. /\ Completed(convs) \subseteq Completed(convs')
        /\ Completed(convs') \subseteq 1 .. Len(convs')
    BY <1>5 DEF Completed
  <2> QED BY <2>1, <2>2, FS_Subset, FS_CardinalityType
<1>9. stats'.completed <= Cardinality(Completed(convs'))
  BY <1>4, <1>7, <1>8
<1>10. ActorOK(convs', stats')
  BY <1>4, <1>5, <1>6, <1>7, <1>9 DEF ActorOK
<1> QED BY <1>2, <1>10 DEF ConversationInv

\* The tick keeps the invariant, whatever the agent's run comes to.
LEMMA TickStep ==
  ASSUME ConversationInv, NEW run, Tick(run)
  PROVE  ConversationInv'
<1>1. PICK st : st = [convs |-> convs, stats |-> stats]
  OBVIOUS
<1>2. StOK(st) /\ mailbox \in Seq(Inbox)
  BY <1>1 DEF ConversationInv, StOK
<1>3. PICK new : new = HandledOf(st, mailbox)
  OBVIOUS
<1>4. StOK(new)
  BY <1>2, <1>3, TickOK
<1>5. /\ convs' = new.convs /\ mailbox' = <<>>
      /\ stats' = [new.stats EXCEPT !.errors = IF run = "error" THEN @ + 1 ELSE @]
  BY <1>1, <1>3 DEF Tick, HandledOf
<1>6. stats' \in Tallies /\ stats'.started = new.stats.started
      /\ stats'.completed = new.stats.completed
  <2>1. PICK tl \in Tallies : tl = new.stats
    BY <1>4 DEF StOK, ActorOK
  <2>2. PICK tm : tm = [tl EXCEPT !.errors = IF run = "error" THEN @ + 1 ELSE @]
    OBVIOUS
  <2>3. tm \in Tallies /\ tm.started = tl.started /\ tm.completed = tl.completed
    BY ONLY <2>2, tl \in Tallies DEF Tallies
  <2> QED BY <1>5, <2>1, <2>2, <2>3
<1>7. ActorOK(convs', stats')
  BY <1>4, <1>5, <1>6 DEF StOK, ActorOK
<1> QED BY <1>5, <1>7 DEF ConversationInv

\* Every step of the agent keeps it: starts, deliveries, ticks, migration and shutdown.
LEMMA ConversationNext ==
  ASSUME ConversationInv, [CNext]_cvars
  PROVE  ConversationInv'
<1>1. CASE UNCHANGED <<convs, stats, mailbox>>
  BY <1>1 DEF ConversationInv, ActorOK, Completed
<1>2. ASSUME NEW p \in Started, StartConversation(p)
      PROVE  ConversationInv'
  BY <1>2, StartOK
<1>3. ASSUME NEW msg \in Inbox, DeliverMessage(msg)
      PROVE  ConversationInv'
  BY <1>3 DEF DeliverMessage, ConversationInv, ActorOK, Completed
<1>4. ASSUME NEW run, Tick(run)
      PROVE  ConversationInv'
  BY <1>4, TickStep
<1>5. CASE MigrateTo
  BY <1>1, <1>5 DEF MigrateTo
<1>6. ASSUME NEW ok \in BOOLEAN, MigrationDone(ok)
      PROVE  ConversationInv'
  BY <1>1, <1>6 DEF MigrationDone
<1>7. CASE Shutdown
  BY <1>1, <1>7 DEF Shutdown
<1> QED BY <1>1, <1>2, <1>3, <1>4, <1>5, <1>6, <1>7 DEF CNext, cvars

\* The invariant is more than ConversationSound asks: what was completed is among what was started.
LEMMA ConversationInvSound == ConversationInv => ConversationSound
<1> SUFFICES ASSUME ConversationInv
             PROVE  ConversationSound
  OBVIOUS
<1>1. PICK S : convs \in Seq(S)
  BY DEF ConversationInv, ActorOK
<1>2. HistoryIsTheState
  <2>1. DOMAIN convs = 1 .. Len(convs)
    BY <1>1
  <2> QED BY <2>1 DEF ConversationInv, ActorOK, ConvOK, HistoryIsTheState
<1>3. stats.completed \in Nat /\ stats.started = Len(convs)
      /\ stats.completed <= Cardinality(Completed(convs))
  BY DEF ConversationInv, ActorOK, Tallies
<1>4. Cardinality(Completed(convs)) \in Nat /\ Cardinality(Completed(convs)) <= Len(convs)
  <2>1. Len(convs) \in Nat
    BY <1>1
  <2>2. IsFiniteSet(1 .. Len(convs)) /\ Cardinality(1 .. Len(convs)) = Len(convs)
    <3>1. PICK n \in Nat : n = Len(convs)
      BY <2>1
    <3>2. PICK a \in Int : a = 1
      OBVIOUS
    <3>3. n \in Int
      BY <3>1
    <3>4. IsFiniteSet(a .. n) /\ Cardinality(a .. n) = IF a > n THEN 0 ELSE n - a + 1
      BY ONLY <3>2, <3>3, FS_Interval
    <3>5. (IF a > n THEN 0 ELSE n - a + 1) = n
      BY ONLY <3>1, <3>2
    <3>6. IsFiniteSet(a .. n) /\ Cardinality(a .. n) = n
      BY ONLY <3>4, <3>5
    <3> QED BY ONLY <3>1, <3>2, <3>6
  <2>3. Completed(convs) \subseteq 1 .. Len(convs)
    BY DEF Completed
  <2> QED BY <2>2, <2>3, FS_Subset, FS_CardinalityType
<1>5. CompletesOnce
  BY <1>1, <1>3, <1>4 DEF CompletesOnce
<1> QED BY <1>2, <1>5 DEF ConversationSound

(* For every set of protocols, peers and messages: the message_history of a
   conversation replayed through its protocol's table gives its state, and
   the actor counts no more completions than it started conversations,
   though peers repeat, reorder and send after the end (process_mailbox). *)
THEOREM ConversationSoundHolds == CSpec => []ConversationSound
<1> QED BY ConversationInit, ConversationNext, ConversationInvSound, PTL DEF CSpec
=============================================================================
