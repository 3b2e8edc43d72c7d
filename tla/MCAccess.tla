----------------------------- MODULE MCAccess -----------------------------
(* What stands between the platform and others, for TLC: the security manager, the web of trust, and *)
(* the edge of a node.                                                                               *)
EXTENDS Security, Trust, Gateway, TLC

VARIABLE side      \* which of the parts runs in this behaviour

edgevars == <<kvvars, ratevars, keyvars, sealvars, linkvars>>
accessvars == <<side, svars, tvars, edgevars>>

Guest == <<"g", "uest">>
Ams == <<"ams">>

Read == [kind |-> "pair", key |-> "actions", value |-> <<"read">>]

\* The file the comment of Policy::from_yaml shows, with a role that inherits.
DocumentedFile ==
  <<[kind |-> "section", name |-> "policy"], [kind |-> "pair", key |-> "name", value |-> <<>>],
    [kind |-> "section", name |-> "roles"],
    [kind |-> "open", name |-> "admin"], [kind |-> "pair", key |-> "inherits", value |-> <<"user">>],
    [kind |-> "open", name |-> "permissions"], [kind |-> "resource", resource |-> "any"], Read,
    [kind |-> "open", name |-> "user"],
    [kind |-> "section", name |-> "bindings"],
    [kind |-> "agent", pattern |-> Guest], [kind |-> "pair", key |-> "roles", value |-> <<"admin">>],
    [kind |-> "agent", pattern |-> <<"*">>], [kind |-> "pair", key |-> "roles", value |-> <<"user">>]>>

Role(perms, parents) == [permissions |-> perms, inherits |-> parents]
DenyDf == [Grants("platform", <<"df">>, {"admin"}) EXCEPT !.deny = TRUE]
BoundTo(pattern, names) == [agent |-> pattern, roles |-> names]

\* A chain of three with a denial at its end, a diamond, a circle, and a parent that is missing.
MCPolicies ==
  LET chain == "low" :> Role({Grants("agent", <<"*">>, {"read"}), DenyDf}, <<>>)
               @@ "mid" :> Role({Grants("platform", <<"d", "*">>, {"admin"})}, <<"low">>)
               @@ "top" :> Role({Grants("*", <<"*">>, {"execute"})}, <<"mid">>)
  IN  {[roles |-> chain, bindings |-> <<BoundTo(<<"g", "*">>, <<"top">>)>>],
       [roles |-> "other" :> Role({}, <<"low">>) @@ "top" :> Role({}, <<"mid", "other">>) @@ chain,
        bindings |-> <<BoundTo(<<"*">>, <<"top", "mid">>)>>],
       [roles |-> "low" :> Role({Grants("agent", <<"*">>, {"read"})}, <<"top">>) @@ chain,
        bindings |-> <<BoundTo(<<"*", "uest", "*">>, <<"top">>)>>],
       [roles |-> "mid" :> Role({}, <<"missing">>) @@ chain,
        bindings |-> <<BoundTo(<<"*", "uest">>, <<"top", "low">>)>>]}

MCFiles == {DocumentedFile}
MCPrincipals == {Guest, Ams}
MCBindings == {BoundTo(<<"*">>, <<"low">>), BoundTo(<<"ams">>, <<"top", "admin">>)}
MCQueries ==
  {[type |-> "agent", name |-> <<"x">>], [type |-> "platform", name |-> <<"df">>],
   [type |-> "platform", name |-> <<"d", "f">>]} \X {"read", "execute", "admin"}

\* Namespaces and keys that run together when one is put after the other.
MCNamespaces == {<<"a">>, <<"a", "b">>}
MCStateKeys == {<<>>, <<"b">>}

Edges == {"kv", "rate", "key", "seal", "link"}

\* Logins run against one policy, and policies change under one login of an agent; the paths of
\* the web are followed further than the cache and the store need.
Init ==
  /\ SInit /\ TInit
  /\ KvInit /\ RateInit /\ KeyInit /\ SealInit /\ LinkInit
  /\ \/ side = "logins" /\ config.authz /\ engine = NewEngine /\ web = EmptyWeb
     \/ side = "policies" /\ config = [auth |-> TRUE, authz |-> TRUE] /\ web = EmptyWeb
     \/ side \in Edges /\ engine = NewEngine /\ config = [auth |-> TRUE, authz |-> TRUE] /\ web = EmptyWeb
     \/ side \in {"paths", "cache", "store"} /\ engine = NewEngine /\ config = [auth |-> TRUE, authz |-> TRUE]

Few == MaxSigs - 1

GuardsNext ==
  \/ side = "logins" /\ LoginNext /\ UNCHANGED <<side, tvars>>
  \/ /\ side = "policies"
     /\ \/ PolicyNext
        \/ \E a \in Principals : Authenticate(a, [kind |-> "anonymous"])
     /\ UNCHANGED <<side, tvars>>
  \/ side = "paths" /\ WebNext /\ UNCHANGED <<side, svars>>
  \/ side = "cache" /\ (WebNext \/ CacheNext) /\ Sigs(web') + owned' <= Few /\ UNCHANGED <<side, svars>>
  \/ side = "store" /\ (WebNext \/ SavesNext) /\ Sigs(web') + owned' <= Few /\ UNCHANGED <<side, svars>>

EdgeNext ==
  \/ side = "kv" /\ KvNext /\ UNCHANGED <<ratevars, keyvars, sealvars, linkvars>>
  \/ side = "rate" /\ RateNext /\ UNCHANGED <<kvvars, keyvars, sealvars, linkvars>>
  \/ side = "key" /\ KeyNext /\ UNCHANGED <<kvvars, ratevars, sealvars, linkvars>>
  \/ side = "seal" /\ SealNext /\ UNCHANGED <<kvvars, ratevars, keyvars, linkvars>>
  \/ side = "link" /\ LinkNext /\ UNCHANGED <<kvvars, ratevars, keyvars, sealvars>>

Next ==
  \/ GuardsNext /\ UNCHANGED edgevars
  \/ EdgeNext /\ UNCHANGED <<side, svars, tvars>>

OtherKeys == Permutations(Others)

Spec == Init /\ [][Next]_accessvars
=============================================================================
