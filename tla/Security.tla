----------------------------- MODULE Security -----------------------------
(***************************************************************************)
(* security/: the manager that authenticates agents, keeps their sessions  *)
(* and asks the policy engine whether an agent may act on a resource.      *)
(*                                                                         *)
(* Every call of the manager takes the locks it needs one after the other  *)
(* and changes the state of one component under one of them, so a call is  *)
(* one action.  A name is a sequence of fragments, so that a pattern can   *)
(* hold a star; certificates and tokens are their validity.  The module is *)
(* not yet called by the node: its callers are those of the public         *)
(* methods.                                                                *)
(***************************************************************************)
EXTENDS Integers, SequencesExt, Maps

CONSTANTS
  Principals,       \* the names of the agents
  Policies,         \* what set_policy is given
  Files,            \* policy files, as their lines
  Bindings,         \* what add_binding is given
  Queries,          \* <<resource, action>> pairs asked about
  MaxFailures,      \* max_auth_failures
  LockoutTime,      \* lockout_duration_secs, in ticks
  SessionTime,      \* the authenticator's session_timeout, in ticks (the configured one is not read)
  MaxTime,          \* bound on the clock
  MaxSessions,      \* bound on the sessions handed out
  MaxBindings       \* bound on the bindings of a policy

ASSUME SecurityAssumption ==
  /\ MaxFailures \in Nat \ {0} /\ LockoutTime \in Nat \ {0} /\ SessionTime \in Nat \ {0}
  /\ MaxTime \in Nat /\ MaxSessions \in Nat /\ MaxBindings \in Nat

\* A policy has finitely many roles, each with a list of parents; a file is a list of lines.
ASSUME PoliciesAssumption ==
  /\ \A p \in Policies :
       /\ p = [roles |-> p.roles, bindings |-> p.bindings]
       /\ IsFiniteSet(DOMAIN p.roles)
       /\ \A r \in DOMAIN p.roles : p.roles[r].inherits \in Seq(Range(p.roles[r].inherits))
  /\ \A f \in Files :
       /\ f \in Seq(Range(f))
       /\ \A line \in Range(f) : line.kind = "pair" => line.value \in Seq(Range(line.value))

VARIABLES
  config,           \* auth_enabled and authz_enabled
  engine,           \* PolicyEngine: the policy and its two caches
  now,
  lockouts,         \* lockouts[a]: failed attempts, and until when a is locked out
  tokens,           \* the registered bearer tokens and API keys
  sessions,         \* the manager's sessions
  issued,           \* every session authenticate returned (its callers hold clones)
  ended,            \* the sessions that were invalidated
  refused           \* refused[a]: a's failed verifications since the last one that succeeded or a
                    \* clear_lockout, and the time of the last of them

svars == <<config, engine, now, lockouts, tokens, sessions, issued, ended, refused>>

-----------------------------------------------------------------------------
(* Permissions *)

\* Patterns: one star may stand at an end or at both; elsewhere a star is a character.
Glob(pattern, name) ==
  LET rest == SelectSeq(pattern, LAMBDA f : f # "*")
  IN  IF Contains(pattern, "*") /\ "*" \in {Head(pattern), Last(pattern)}
      THEN \E i \in 0 .. Len(name) - Len(rest) :
             /\ SubSeq(name, i + 1, i + Len(rest)) = rest
             /\ Head(pattern) = "*" \/ i = 0
             /\ Last(pattern) = "*" \/ i = Len(name) - Len(rest)
      ELSE pattern = name

Covers(resource, other) ==
  /\ resource.type \in {other.type, "*"}
  /\ Glob(resource.name, other.name)

Implies(action, other) == action \in {other, "admin"}

\* PermissionSet::check: a denial wins over every allowance, and silence denies.
Check(perms, resource, action) ==
  LET applies(p) == Covers(p.resource, resource) /\ \E a \in p.actions : Implies(a, action)
  IN  /\ ~\E p \in perms : p.deny /\ applies(p)
      /\ \E p \in perms : ~p.deny /\ applies(p)

Grants(type, name, actions) ==
  [deny |-> FALSE, resource |-> [type |-> type, name |-> name], actions |-> actions]

-----------------------------------------------------------------------------
(* Policies *)

NewRole == [permissions |-> {}, inherits |-> <<>>]
EmptyPolicy == [roles |-> <<>>, bindings |-> <<>>]

AddRole(policy, name, role) == [policy EXCEPT !.roles = With(@, name, role)]

\* Policy::from_yaml, line by line.  A line "name:" of the roles section opens a role, whatever
\* its indentation and its name, and a "- resource: ..." line is taken for a key and its value,
\* which the roles section has no use for.
SavedRole(st) ==
  IF st.role = <<>> THEN st
  ELSE [st EXCEPT !.policy = AddRole(@, st.role[1], st.role[2]), !.role = <<>>]

SavedBinding(st) ==
  IF st.binding = <<>> THEN st
  ELSE [st EXCEPT !.policy.bindings = @ \o st.binding, !.binding = <<>>]

ParseLine(st, line) ==
  CASE line.kind = "section" ->
         [(IF line.name = "policy" THEN st ELSE SavedRole(st)) EXCEPT !.section = line.name]
    [] line.kind = "open" /\ st.section = "roles" ->
         [SavedRole(st) EXCEPT !.role = <<line.name, NewRole>>]
    [] line.kind = "pair" /\ st.section = "roles" /\ line.key = "inherits" /\ st.role # <<>> ->
         [st EXCEPT !.role[2].inherits = line.value]
    [] line.kind = "agent" /\ st.section = "bindings" ->
         [SavedBinding(st) EXCEPT !.binding = <<[agent |-> line.pattern, roles |-> <<>>]>>]
    [] line.kind = "pair" /\ st.section = "bindings" /\ line.key = "roles" /\ st.binding # <<>> ->
         [st EXCEPT !.binding[1].roles = line.value]
    [] OTHER -> st

FromYaml(lines) ==
  SavedBinding(SavedRole(FoldLeft(ParseLine,
    [section |-> "", role |-> <<>>, binding |-> <<>>, policy |-> EmptyPolicy], lines))).policy

\* resolve_role_permissions: the roles visited so far are shared by the whole walk.
Resolve(policy, start) ==
  LET names == DOMAIN policy.roles \union UNION {Range(policy.roles[r].inherits) : r \in DOMAIN policy.roles}
      walk[call \in names \X SUBSET names] ==
        LET name == call[1]
            visited == call[2]
            Inherit(acc, parent) ==
              IF ~acc.ok THEN acc
              ELSE LET got == walk[<<parent, acc.visited>>]
                   IN  [got EXCEPT !.perms = @ \union acc.perms]
        IN  IF name \in visited \/ name \notin DOMAIN policy.roles
            THEN [ok |-> FALSE, visited |-> visited \union {name}, perms |-> {}]
            ELSE LET role == policy.roles[name]
                 IN  FoldLeft(Inherit,
                       [ok |-> TRUE, visited |-> visited \union {name}, perms |-> role.permissions],
                       role.inherits)
  IN  walk[<<start, {}>>]

SetPolicy(policy) ==
  LET resolved == {n \in DOMAIN policy.roles : Resolve(policy, n).ok}
  IN  [policy |-> policy,
       roleCache |-> [n \in resolved |-> Resolve(policy, n).perms],
       agentCache |-> <<>>]

NewEngine == [policy |-> EmptyPolicy, roleCache |-> <<>>, agentCache |-> <<>>]

\* Called only while the default engine is built.
AddBuiltinRole(e, name, perms) ==
  [policy |-> AddRole(e.policy, name, [NewRole EXCEPT !.permissions = perms]),
   roleCache |-> With(e.roleCache, name, perms),
   agentCache |-> e.agentCache]

\* Mutant: the permissions cached for the agents stay.
AddBindingKeepsCache(e, b) == [e EXCEPT !.policy.bindings = Append(@, b)]

AddBinding(e, b) ==
  [policy |-> [e.policy EXCEPT !.bindings = Append(@, b)], roleCache |-> e.roleCache, agentCache |-> <<>>]

\* with_defaults: the roles admin, platform, user and anonymous, and three bindings.
WithDefaults ==
  LET admin == AddBuiltinRole(NewEngine, "admin", {Grants("*", <<"*">>, {"admin"})})
      platform == AddBuiltinRole(admin, "platform",
        {Grants("agent", <<"*">>, {"read", "create", "delete"}),
         Grants("service", <<"*">>, {"read", "create", "update", "delete"}),
         Grants("message", <<"*">>, {"read", "execute"})})
      user == AddBuiltinRole(platform, "user",
        {Grants("agent", <<"*">>, {"read"}), Grants("service", <<"*">>, {"read"}),
         Grants("platform", <<"df">>, {"read", "execute"})})
      roles == AddBuiltinRole(user, "anonymous", {Grants("platform", <<"df">>, {"read"})})
  IN  AddBinding(AddBinding(AddBinding(roles,
        [agent |-> <<"ams">>, roles |-> <<"platform", "admin">>]),
        [agent |-> <<"df">>, roles |-> <<"platform">>]),
        [agent |-> <<"*">>, roles |-> <<"user">>])

\* What get_agent_permissions computes when it has not cached an answer.
BoundPermissions(e, a) ==
  UNION {e.roleCache[r] :
    r \in DOMAIN e.roleCache \intersect
          UNION {Range(b.roles) : b \in {b \in Range(e.policy.bindings) : Glob(b.agent, a)}}}

AgentPermissions(e, a) ==
  IF a \in DOMAIN e.agentCache THEN e.agentCache[a] ELSE BoundPermissions(e, a)

CheckPermission(a, q) == Check(AgentPermissions(engine, a), q[1], q[2])

Cached(e, a) == [e EXCEPT !.agentCache = With(@, a, AgentPermissions(e, a))]

-----------------------------------------------------------------------------
(* Credentials and sessions *)

Credentials ==
  {[kind |-> "anonymous"]}
  \union [kind : {"certificate"}, valid : BOOLEAN]
  \union [kind : {"bearer", "api_key"}, valid : BOOLEAN]
  \union [kind : {"jwt"}, valid : BOOLEAN, subject : BOOLEAN]
  \union [kind : {"certificate_with_token"}, valid : BOOLEAN, token : BOOLEAN]

\* verify_credentials.  "valid" is what validate() answers (not empty, not expired, not a
\* self-signed certificate where they are not allowed).
Verified(c) ==
  CASE c.kind = "anonymous" -> TRUE
    [] c.kind = "certificate" -> c.valid
    [] c.kind \in {"bearer", "api_key"} -> c.valid /\ c.kind \in tokens
    [] c.kind = "jwt" -> c.valid /\ c.subject
    [] c.kind = "certificate_with_token" -> c.valid /\ c.token

NoLockout == [failed |-> 0, until |-> 0]
IsLocked(a) == now < lockouts[a].until

\* Mutant: one attempt more than the limit is tried.
RecordFailureLate(l) ==
  [failed |-> l.failed + 1,
   until |-> IF l.failed + 1 > MaxFailures THEN now + LockoutTime ELSE l.until]

RecordFailure(l) ==
  [failed |-> l.failed + 1,
   until |-> IF l.failed + 1 >= MaxFailures THEN now + LockoutTime ELSE l.until]

IsValid(s) == now < s.expires

NewSession(a, anonymous) ==
  [id |-> Cardinality(issued) + 1, agent |-> a, expires |-> now + SessionTime,
   anonymous |-> anonymous]

SInit ==
  /\ config \in [auth : BOOLEAN, authz : BOOLEAN]
  /\ engine \in {NewEngine, WithDefaults}
  /\ now = 0
  /\ lockouts = [a \in Principals |-> NoLockout]
  /\ tokens = {}
  /\ sessions = {} /\ issued = {} /\ ended = {}
  /\ refused = [a \in Principals |-> [count |-> 0, at |-> 0]]

-----------------------------------------------------------------------------
(* The manager's calls *)

LoadPolicy ==
  /\ \/ \E f \in Files : engine' = SetPolicy(FromYaml(f))
     \/ \E p \in Policies : engine' = SetPolicy(p)
  /\ UNCHANGED <<config, now, lockouts, tokens, sessions, issued, ended, refused>>

BindRoles ==
  /\ Len(engine.policy.bindings) < MaxBindings
  /\ \E b \in Bindings : engine' = AddBinding(engine, b)
  /\ UNCHANGED <<config, now, lockouts, tokens, sessions, issued, ended, refused>>

AuthenticateDisabled(a) ==
  /\ ~config.auth
  /\ Cardinality(issued) < MaxSessions
  /\ issued' = issued \union {NewSession(a, TRUE)}
  /\ UNCHANGED <<config, engine, now, lockouts, tokens, sessions, ended, refused>>

\* A locked account is refused before its credentials are looked at.
Authenticate(a, c) ==
  /\ config.auth /\ ~IsLocked(a)
  /\ Verified(c)
  /\ Cardinality(issued) < MaxSessions
  /\ lockouts' = [lockouts EXCEPT ![a] = NoLockout]
  /\ LET s == NewSession(a, FALSE)
     IN  sessions' = sessions \union {s} /\ issued' = issued \union {s}
  /\ refused' = [refused EXCEPT ![a].count = 0]
  /\ UNCHANGED <<config, engine, now, tokens, ended>>

AuthenticateFails(a, c) ==
  /\ config.auth /\ ~IsLocked(a)
  /\ ~Verified(c)
  /\ lockouts[a].failed <= MaxFailures
  /\ lockouts' = [lockouts EXCEPT ![a] = RecordFailure(@)]
  /\ refused' = [refused EXCEPT ![a] = [count |-> @.count + 1, at |-> now]]
  /\ UNCHANGED <<config, engine, now, tokens, sessions, issued, ended>>

InvalidateSession(s) ==
  /\ sessions' = sessions \ {s}
  /\ ended' = ended \union {s}
  /\ UNCHANGED <<config, engine, now, lockouts, tokens, issued, refused>>

CleanupExpiredSessions ==
  /\ sessions' = {s \in sessions : IsValid(s)}
  /\ UNCHANGED <<config, engine, now, lockouts, tokens, issued, ended, refused>>

\* authorize is given a clone of a session; the answer is CheckPermission's.
Authorize(s) ==
  /\ config.authz /\ IsValid(s)
  /\ engine' = Cached(engine, s.agent)
  /\ UNCHANGED <<config, now, lockouts, tokens, sessions, issued, ended, refused>>

ClearLockout(a) ==
  /\ lockouts' = [lockouts EXCEPT ![a] = NoLockout]
  /\ refused' = [refused EXCEPT ![a].count = 0]
  /\ UNCHANGED <<config, engine, now, tokens, sessions, issued, ended>>

RegisterOrRevoke ==
  /\ \E t \in {"bearer", "api_key"} : tokens' \in {tokens \union {t}, tokens \ {t}}
  /\ UNCHANGED <<config, engine, now, lockouts, sessions, issued, ended, refused>>

SecurityTick ==
  /\ now < MaxTime
  /\ now' = now + 1
  /\ UNCHANGED <<config, engine, lockouts, tokens, sessions, issued, ended, refused>>

LoginNext ==
  \/ RegisterOrRevoke \/ CleanupExpiredSessions \/ SecurityTick
  \/ \E a \in Principals :
       \/ AuthenticateDisabled(a) \/ ClearLockout(a)
       \/ \E c \in Credentials : Authenticate(a, c) \/ AuthenticateFails(a, c)
  \/ \E s \in issued : InvalidateSession(s)

PolicyNext ==
  \/ LoadPolicy \/ BindRoles
  \/ \E s \in issued : Authorize(s)

SecuritySpec == SInit /\ [][LoginNext \/ PolicyNext]_svars

-----------------------------------------------------------------------------
(* Properties *)

Parents(policy, r) == IF r \in DOMAIN policy.roles THEN Range(policy.roles[r].inherits) ELSE {}

\* The roles reached from one by inheritance: the least set that has it and the parents of all it has.
Reached(policy, name) ==
  LET names == {name} \union UNION {Parents(policy, r) : r \in DOMAIN policy.roles}
      closed == {R \in SUBSET names : name \in R /\ \A r \in R : Parents(policy, r) \subseteq R}
  IN  {r \in names : \A R \in closed : r \in R}

\* Where a role stands in the lists of parents of the roles R.
Standing(policy, R, r) ==
  {e \in UNION {{p} \X DOMAIN policy.roles[p].inherits : p \in R} : policy.roles[e[1]].inherits[e[2]] = r}

\* A role counts when every role it reaches is defined and is inherited along one path only:
\* the walk takes a second path to a role for a circle.
IsTree(policy, name) ==
  LET R == Reached(policy, name)
  IN  /\ R \subseteq DOMAIN policy.roles
      /\ \A r \in R : IF r = name THEN Standing(policy, R, r) = {}
                      ELSE \E e \in Standing(policy, R, r) : Standing(policy, R, r) = {e}

\* What the policy itself allows an agent: the permissions of every role reached from a role bound
\* to it.
PolicyAllows(a) ==
  LET policy == engine.policy
      bound == UNION {Range(b.roles) : b \in {b \in Range(policy.bindings) : Glob(b.agent, a)}}
  IN  UNION {UNION {policy.roles[r].permissions : r \in Reached(policy, n)} :
               n \in {n \in bound : n \in DOMAIN policy.roles /\ IsTree(policy, n)}}

\* Whatever was cached for a role or an agent before the policy was replaced or a binding added
\* (set_policy, add_binding), the engine decides as the policy in force says: both caches are
\* only ever a shortcut.
DecisionsFollowPolicy ==
  \A a \in Principals :
    LET perms == PolicyAllows(a)
    IN  \A q \in Queries : CheckPermission(a, q) = Check(perms, q[1], q[2])

\* An agent whose credentials failed max_auth_failures times with no success and no clearing in
\* between gets no session until the lockout after its last failure is over (authenticate,
\* record_failure, is_locked).
LockoutHolds ==
  [][\A a \in Principals :
       (\E s \in issued' \ issued : s.agent = a /\ ~s.anonymous) =>
         refused[a].count < MaxFailures \/ now >= refused[a].at + LockoutTime]_svars

\* A session authenticate handed out is known to validate_session and get_session until it
\* expires or is invalidated: cleaning up never takes one that is still valid.
SessionsHonoured ==
  \A s \in issued : ~s.anonymous /\ s \notin ended /\ IsValid(s) => s \in sessions

\* The security manager lets in whom it should and keeps in whom it let in, whatever its caches,
\* clean-ups and changes of policy did in between.
AccessSound == DecisionsFollowPolicy /\ SessionsHonoured
=============================================================================
