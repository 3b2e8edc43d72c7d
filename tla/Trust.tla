------------------------------- MODULE Trust -------------------------------
(***************************************************************************)
(* trust/: the web of trust (which identities are known, who endorsed      *)
(* them, how far their owner trusts them), the validity calculated from    *)
(* it, and the store the web is saved to and loaded from.                  *)
(*                                                                         *)
(* Keys and signatures are abstract: a signature is what it says, and the  *)
(* ones the web is given have been verified by its callers.  The web has   *)
(* one owner, so its calls do not interleave; the process may end in the   *)
(* middle of a save, and sled then keeps the writes up to some point.      *)
(***************************************************************************)
EXTENDS Integers, SequencesExt, Maps

CONSTANTS
  Me,               \* our own fingerprint
  Others,           \* the other fingerprints
  MaxPathLength,    \* max_path_length
  MarginalsNeeded,  \* marginals_needed
  CompletesNeeded,  \* completes_needed
  AllowMarginal,    \* allow_marginal_introducers
  MaxSigs,          \* bound on the signatures of the web
  MaxOwned,         \* bound on the calls of set_owner_trust
  MaxLives          \* bound on the restarts

ASSUME TrustAssumption ==
  /\ MaxPathLength \in Nat \ {0} /\ MarginalsNeeded \in Nat /\ CompletesNeeded \in Nat
  /\ AllowMarginal \in BOOLEAN /\ Me \notin Others
  /\ MaxSigs \in Nat /\ MaxOwned \in Nat /\ MaxLives \in Nat

VARIABLES
  web,              \* WebOfTrust without its cache: self, owner trust, identities
  cache,            \* validity_cache: the answers, each with the time it was calculated at
  date,             \* the clock the signatures expire by
  disk,             \* the store's trees, as a web
  saved,            \* the web as it was when it was last saved, or loaded
  lives,            \* number of starts of the process
  owned             \* number of calls of set_owner_trust

tvars == <<web, cache, date, disk, saved, lives, owned>>

Keys == {Me} \union Others
Levels == {"Unknown", "Untrusted", "Marginal", "Full", "Ultimate"}
Nobody == <<>>      \* self_fingerprint: a sequence of at most one
EmptyWeb == [self |-> Nobody, owner |-> <<>>, identities |-> <<>>]

-----------------------------------------------------------------------------
(* Signatures *)

CanIntroduce(level) == level \in {"Full", "Ultimate"}

\* The places of an identity's signatures that endorse it.
ValidEndorsements(sigs, t) ==
  {i \in DOMAIN sigs :
    /\ ~sigs[i].revokes
    /\ sigs[i].expires = 0 \/ t <= sigs[i].expires
    /\ ~\E j \in DOMAIN sigs : sigs[j].revokes /\ sigs[j].signer = sigs[i].signer}

-----------------------------------------------------------------------------
(* Trust paths and validity, in a web at a time *)

\* Paths[n]: the simple paths of n keys from ourselves that stop where they reach the target,
\* each with the levels of its hops; only paths of up to MaxPathLength keys are continued.
PathsTo(w, target, t) ==
  LET valid(k) == {w.identities[k][i] : i \in ValidEndorsements(w.identities[k], t)}
      Extend(p) ==
        UNION {{<<Append(p[1], k), Append(p[2], s.level)>> :
                  s \in {s \in valid(k) : s.signer = Last(p[1])}} :
               k \in DOMAIN w.identities \ Range(p[1])}
      Paths[n \in 1 .. MaxPathLength + 1] ==
        IF n = 1 THEN {<<w.self, <<>>>>}
        ELSE UNION {Extend(p) : p \in {p \in Paths[n - 1] : Last(p[1]) # target}}
  IN  IF w.self = Nobody THEN {}
      ELSE {p \in UNION {Paths[n] : n \in 1 .. MaxPathLength + 1} : Last(p[1]) = target}

\* calculate_effective_trust >= num / 10, with the weights 0, 1/2 and 1 and a decay of 4/5 to the
\* power of the hop's index.
Reaches(levels, num) ==
  LET hops == Len(levels)
      exponent == (hops * (hops - 1)) \div 2
      weight == IF \E i \in DOMAIN levels : levels[i] \in {"Unknown", "Untrusted"} THEN 0
                ELSE 2 ^ Cardinality({i \in DOMAIN levels : CanIntroduce(levels[i])})
  IN  10 * weight * 4 ^ exponent >= num * 2 ^ hops * 5 ^ exponent

OwnerTrust(w, k) == IF k \in DOMAIN w.owner THEN w.owner[k] ELSE "Unknown"

\* Mutant: a signer is worth what its weakest path is.
WeightOfWorstPath(w, s, t) ==
  LET paths == PathsTo(w, s.signer, t)
      byLevel == IF CanIntroduce(s.level) THEN "full"
                 ELSE IF s.level = "Marginal" THEN "marginal" ELSE "none"
  IN  IF CanIntroduce(OwnerTrust(w, s.signer)) \/ (paths # {} /\ \A p \in paths : Reaches(p[2], 8))
      THEN byLevel
      ELSE IF AllowMarginal /\ paths # {} /\ \A p \in paths : Reaches(p[2], 4) THEN "marginal"
      ELSE "none"

\* What one endorsement counts for: by its level where its signer may introduce or is reached by
\* a path of trust 0.8 or more, as a marginal one whatever its level on a weaker path.
Weight(w, s, t) ==
  LET paths == PathsTo(w, s.signer, t)
      byLevel == IF CanIntroduce(s.level) THEN "full"
                 ELSE IF s.level = "Marginal" THEN "marginal" ELSE "none"
  IN  IF CanIntroduce(OwnerTrust(w, s.signer)) \/ \E p \in paths : Reaches(p[2], 8) THEN byLevel
      ELSE IF AllowMarginal /\ \E p \in paths : Reaches(p[2], 4) THEN "marginal"
      ELSE "none"

ValidityUncached(w, k, t) ==
  IF w.self = <<k>> \/ OwnerTrust(w, k) = "Ultimate" THEN "Ultimate"
  ELSE IF OwnerTrust(w, k) = "Untrusted" THEN "Revoked"
  ELSE IF k \notin DOMAIN w.identities THEN "Unknown"
  ELSE LET sigs == w.identities[k]
           count(kind) == Cardinality({i \in ValidEndorsements(sigs, t) : Weight(w, sigs[i], t) = kind})
       IN  IF count("full") >= CompletesNeeded THEN "Full"
           ELSE IF count("marginal") >= MarginalsNeeded \/ count("full") + count("marginal") > 0
           THEN "Marginal"
           ELSE "Undefined"

-----------------------------------------------------------------------------
(* The web *)

SetSelf(w, k) == [self |-> <<k>>, owner |-> With(w.owner, k, "Ultimate"), identities |-> w.identities]

TInit ==
  /\ web \in {EmptyWeb, SetSelf(EmptyWeb, Me)}
  /\ cache = <<>>
  /\ date = 0
  /\ disk = [EmptyWeb EXCEPT !.self = web.self]     \* store_self_identity, with its flush
  /\ saved = EmptyWeb
  /\ lives = 1
  /\ owned = 0

Sigs(w) == FoldFunction(LAMBDA s, n : Len(s) + n, 0, w.identities)

\* An identity is added, or replaced by its package with one signature more.
AddIdentity(k, sigs) ==
  /\ web' = [web EXCEPT !.identities = With(@, k, sigs)]
  /\ cache' = <<>>
  /\ UNCHANGED <<date, disk, saved, lives, owned>>

Package(k) == IF k \in DOMAIN web.identities THEN web.identities[k] ELSE <<>>

Endorse(signer, k, level, expires) ==
  /\ Sigs(web) < MaxSigs
  /\ AddIdentity(k, Append(Package(k),
       [signer |-> signer, level |-> level, revokes |-> FALSE, expires |-> expires]))

Revoke(signer, k) ==
  /\ Sigs(web) < MaxSigs
  /\ k \in DOMAIN web.identities
  /\ AddIdentity(k, Append(Package(k),
       [signer |-> signer, level |-> "Unknown", revokes |-> TRUE, expires |-> 0]))

\* Mutant: the cached answers stay.
SetOwnerTrustKeepsCache(k, level) ==
  /\ owned < MaxOwned
  /\ web' = [web EXCEPT !.owner = With(@, k, level)]
  /\ owned' = owned + 1
  /\ UNCHANGED <<cache, date, disk, saved, lives>>

SetOwnerTrust(k, level) ==
  /\ owned < MaxOwned
  /\ web' = [web EXCEPT !.owner = With(@, k, level)]
  /\ cache' = <<>>
  /\ owned' = owned + 1
  /\ UNCHANGED <<date, disk, saved, lives>>

Known(ks) ==
  [k \in ks |-> IF k \in DOMAIN cache THEN cache[k]
                ELSE [validity |-> ValidityUncached(web, k, date), at |-> date]]

CalculateValidity(k) ==
  /\ k \notin DOMAIN cache
  /\ cache' = Over(Known({k}), cache)
  /\ UNCHANGED <<web, date, disk, saved, lives, owned>>

\* Every known identity's validity is calculated, and those of at least the level are listed.
GetValidIdentities ==
  /\ cache' = Over(Known(DOMAIN web.identities), cache)
  /\ UNCHANGED <<web, date, disk, saved, lives, owned>>

DateMoves ==
  /\ date < 2
  /\ date' = date + 1
  /\ UNCHANGED <<web, cache, disk, saved, lives, owned>>

-----------------------------------------------------------------------------
(* The store *)

\* save_web_of_trust writes the identities, then the owner trust, each entry over the old one.
Written(ids, owners) ==
  [self |-> disk.self,
   identities |-> Over([k \in ids |-> web.identities[k]], disk.identities),
   owner |-> Over([k \in owners |-> web.owner[k]], disk.owner)]

SaveWebOfTrust ==
  /\ disk' = Written(DOMAIN web.identities, DOMAIN web.owner)
  /\ saved' = web
  /\ UNCHANGED <<web, cache, date, lives, owned>>

\* set_self, add_identity for each identity, set_owner_trust for each entry.
LoadWebOfTrust(d) ==
  LET start == IF d.self = Nobody THEN EmptyWeb ELSE SetSelf(EmptyWeb, d.self[1])
  IN  [self |-> start.self, identities |-> d.identities, owner |-> Over(d.owner, start.owner)]

\* The process ends, possibly in the middle of a save, and the next one loads the web.
Restart ==
  /\ lives < MaxLives
  /\ lives' = lives + 1
  /\ \/ disk' = disk
     \/ \E ids \in SUBSET DOMAIN web.identities, owners \in SUBSET DOMAIN web.owner :
          /\ owners # {} => ids = DOMAIN web.identities
          /\ disk' = Written(ids, owners)
  /\ web' = LoadWebOfTrust(disk')
  /\ cache' = <<>> /\ saved' = web'
  /\ UNCHANGED <<date, owned>>

WebNext ==
  \/ \E signer \in Keys, k \in Others :
       \/ signer # k /\ \E level \in {"Marginal", "Full"} : Endorse(signer, k, level, 0)
       \/ signer # k /\ Endorse(signer, k, "Full", 1)
       \/ Revoke(signer, k)
  \/ \E k \in Keys, level \in Levels : SetOwnerTrust(k, level)

CacheNext == GetValidIdentities \/ DateMoves \/ \E k \in Keys : CalculateValidity(k)

SavesNext == SaveWebOfTrust \/ Restart

TrustSpec == TInit /\ [][WebNext \/ CacheNext \/ SavesNext]_tvars

-----------------------------------------------------------------------------
(* Properties *)

\* However the web changed (set_self, add_identity, set_owner_trust), a cached validity is the one
\* the present web gives at the time it was calculated: only the passing of time may outdate it.
CachedValidityWasTrue ==
  \A k \in DOMAIN cache : cache[k].validity = ValidityUncached(web, k, cache[k].at)

Rank == [Unknown |-> 0, Revoked |-> 0, Undefined |-> 0, Marginal |-> 1, Full |-> 2, Ultimate |-> 3]

Signatures(w, k) == IF k \in DOMAIN w.identities THEN w.identities[k] ELSE <<>>

\* A new endorsement never makes any identity of the web less valid than it was (its subject or
\* one endorsed further down a path, find_trust_paths), and a new revocation never makes one more
\* valid, in whatever order they arrive.
EndorsementsOnlyRaise ==
  \A k \in Others :
    Len(Signatures(web', k)) > Len(Signatures(web, k)) =>
      \A j \in Keys :
        LET before == Rank[ValidityUncached(web, j, date)]
            after == Rank[ValidityUncached(web', j, date)]
        IN  IF Last(Signatures(web', k)).revokes THEN after <= before ELSE after >= before

\* After a restart, whatever a save in progress had written, every identity and every owner trust
\* of the last complete save, or of the last load after it, is back as it was then or as the
\* interrupted save wrote it (save_web_of_trust, load_web_of_trust).
SavedWebSurvives ==
  lives' > lives =>
    /\ \A k \in DOMAIN saved.identities :
         k \in DOMAIN web'.identities
         /\ web'.identities[k] \in {saved.identities[k], Signatures(web, k)}
    /\ \A k \in DOMAIN saved.owner :
         web'.owner[k] \in {saved.owner[k], OwnerTrust(web, k)}

\* The web of trust only changes the way its signatures say, and a restart takes nothing from it.
WebEvolves == [][EndorsementsOnlyRaise /\ SavedWebSurvives]_tvars
=============================================================================
