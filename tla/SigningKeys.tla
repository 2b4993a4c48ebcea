----------------------------- MODULE SigningKeys -----------------------------
(***************************************************************************)
(* Supabase's signing keys: JWTVerifier of                                 *)
(* internal/integrations/supabase/jwt.go, shared by all requests.  A       *)
(* request whose key is not in the cached set, or finds the set too old,   *)
(* fetches the set without a lock, replaces the cached one and looks       *)
(* again.  Any number of requests do so at a time.                         *)
(*                                                                         *)
(* A token is the id of its key: its claims and its signature are valid.   *)
(***************************************************************************)
EXTENDS Integers

CONSTANTS
  Verifier,    \* requests that verify a token at a time
  Kid,         \* ids of keys
  KeySet,      \* KeySet[v]: the keys that Supabase publishes as version v
  NoKeySet,    \* nothing fetched yet
  KeyTTL,      \* ten minutes, in units of time
  MaxFetch     \* the timeout of the HTTP client

KeyVersion == DOMAIN KeySet

ASSUME KeysAssumption ==
  /\ \A v \in KeyVersion : v \in Nat /\ KeySet[v] \subseteq Kid
  /\ 0 \in KeyVersion
  /\ NoKeySet \notin KeyVersion
  /\ KeyTTL \in Nat /\ MaxFetch \in Nat
  /\ MaxFetch <= KeyTTL

VARIABLES
  keyVersion,  \* the version that Supabase publishes
  keyAge,      \* keyAge[v]: the time since version v was replaced
  cachedKey,   \* the version in the cache
  cachedFor,   \* the time since cachedAt
  verifier,    \* verifier[r]: a request whose key was not cached
  verdict      \* what Verify returns in this step

keysVars == <<keyVersion, keyAge, cachedKey, cachedFor, verifier, verdict>>

KeyMaxAge == KeyTTL + MaxFetch + 1

NoVerifier ==
  [pc |-> "idle", kid |-> NoKeySet,
   own |-> NoKeySet,     \* the version it fetched
   from |-> 0,           \* the version published when it began
   overtaken |-> FALSE,  \* another request stored an older set after it did
   time |-> 0]           \* since Supabase answered
NoVerdict == [kind |-> "none", kid |-> NoKeySet, cached |-> NoKeySet, from |-> 0,
              overtaken |-> FALSE]

VerifierState ==
  [pc : {"idle", "fetch", "store", "look"}, kid : Kid \cup {NoKeySet},
   own : KeyVersion \cup {NoKeySet}, from : KeyVersion, overtaken : BOOLEAN,
   time : 0..MaxFetch]
Verdict ==
  [kind : {"none", "accept", "reject", "error"}, kid : Kid \cup {NoKeySet},
   cached : KeyVersion \cup {NoKeySet}, from : KeyVersion, overtaken : BOOLEAN]

KeysTypeOK ==
  /\ keyVersion \in KeyVersion
  /\ keyAge \in [KeyVersion -> 0..KeyMaxAge]
  /\ cachedKey \in KeyVersion \cup {NoKeySet}
  /\ cachedFor \in 0..(KeyTTL + 1)
  /\ verifier \in [Verifier -> VerifierState]
  /\ verdict \in Verdict

KeysInit ==
  /\ keyVersion = 0
  /\ keyAge = [v \in KeyVersion |-> 0]
  /\ cachedKey = NoKeySet
  /\ cachedFor = 0
  /\ verifier = [r \in Verifier |-> NoVerifier]
  /\ verdict = NoVerdict

-----------------------------------------------------------------------------
\* cachedPublicKey.  Faulty: a cached key is good for ever.
CachedEver(kid) == cachedKey # NoKeySet /\ kid \in KeySet[cachedKey]
CachedPublicKey(kid) ==
  cachedKey # NoKeySet /\ cachedFor <= KeyTTL /\ kid \in KeySet[cachedKey]

Decides(kind, kid, from, overtaken) ==
  verdict' = [kind |-> kind, kid |-> kid, cached |-> cachedKey, from |-> from,
              overtaken |-> overtaken]

\* The first look at the cache, without a fetch of its own.
Verify(r, kid) ==
  /\ verifier[r].pc = "idle"
  /\ IF CachedPublicKey(kid)
     THEN /\ Decides("accept", kid, keyVersion, FALSE)
          /\ UNCHANGED verifier
     ELSE /\ verifier' = [verifier EXCEPT ![r] =
               [NoVerifier EXCEPT !.pc = "fetch", !.kid = kid, !.from = keyVersion]]
          /\ verdict' = NoVerdict
  /\ UNCHANGED <<keyVersion, keyAge, cachedKey, cachedFor>>

\* Supabase answers the GET of refreshKeys with what it publishes now.
FetchKeys(r) ==
  /\ verifier[r].pc = "fetch"
  /\ verifier' = [verifier EXCEPT ![r].pc = "store", ![r].own = keyVersion]
  /\ verdict' = NoVerdict
  /\ UNCHANGED <<keyVersion, keyAge, cachedKey, cachedFor>>

\* No answer in time, a status of 400 or more, or a body that does not decode.
FetchFails(r) ==
  /\ verifier[r].pc \in {"fetch", "store"}
  /\ Decides("error", verifier[r].kid, verifier[r].from, FALSE)
  /\ verifier' = [verifier EXCEPT ![r] = NoVerifier]
  /\ UNCHANGED <<keyVersion, keyAge, cachedKey, cachedFor>>

\* The fetched set replaces the cached one, under the mutex, whatever another
\* request has stored meanwhile.  Faulty: the first stored set stays.
KeptKeySet(own) == IF cachedKey = NoKeySet THEN own ELSE cachedKey
StoredKeySet(own) == own

StoreKeys(r) ==
  /\ verifier[r].pc = "store"
  /\ cachedKey' = StoredKeySet(verifier[r].own)
  /\ cachedFor' = 0
  /\ verifier' = [q \in Verifier |->
       CASE q = r -> [verifier[q] EXCEPT !.pc = "look"]
         [] q # r /\ verifier[q].pc = "look" /\ verifier[r].own < verifier[q].own ->
              [verifier[q] EXCEPT !.overtaken = TRUE]
         [] OTHER -> verifier[q]]
  /\ verdict' = NoVerdict
  /\ UNCHANGED <<keyVersion, keyAge>>

\* The second look at the cache.
LookAgain(r) ==
  /\ verifier[r].pc = "look"
  /\ LET kid == verifier[r].kid
         kind == IF CachedPublicKey(kid) THEN "accept" ELSE "reject"
     IN  Decides(kind, kid, verifier[r].from, verifier[r].overtaken)
  /\ verifier' = [verifier EXCEPT ![r] = NoVerifier]
  /\ UNCHANGED <<keyVersion, keyAge, cachedKey, cachedFor>>

\* Supabase publishes the next set.
Rotate ==
  /\ keyVersion + 1 \in KeyVersion
  /\ keyVersion' = keyVersion + 1
  /\ verdict' = NoVerdict
  /\ UNCHANGED <<keyAge, cachedKey, cachedFor, verifier>>

\* A unit of time passes; no request goes on for longer than MaxFetch once
\* Supabase has answered it.
KeyTime ==
  /\ \A r \in Verifier : verifier[r].pc \in {"store", "look"} => verifier[r].time < MaxFetch
  /\ keyAge' = [v \in KeyVersion |->
       IF v < keyVersion /\ keyAge[v] < KeyMaxAge THEN keyAge[v] + 1 ELSE keyAge[v]]
  /\ cachedFor' = IF cachedKey = NoKeySet \/ cachedFor > KeyTTL THEN cachedFor
                  ELSE cachedFor + 1
  /\ verifier' = [r \in Verifier |->
       IF verifier[r].pc \in {"store", "look"}
       THEN [verifier[r] EXCEPT !.time = @ + 1]
       ELSE verifier[r]]
  /\ verdict' = NoVerdict
  /\ UNCHANGED <<keyVersion, cachedKey>>

KeysNext ==
  \/ \E r \in Verifier :
       \/ \E kid \in Kid : Verify(r, kid)
       \/ FetchKeys(r)
       \/ FetchFails(r)
       \/ StoreKeys(r)
       \/ LookAgain(r)
  \/ Rotate
  \/ KeyTime

KeysSpec == KeysInit /\ [][KeysNext]_keysVars

-----------------------------------------------------------------------------
(***************************************************************************)
(* Properties.                                                             *)
(***************************************************************************)

\* A key that Supabase no longer publishes is trusted for ten minutes and one
\* fetch at most, although a fetch that was under way when it was withdrawn
\* may put it back into the cache: the verifier implements RecentReads.
Trusted == INSTANCE RecentReads WITH
  Staleness <- KeyTTL + MaxFetch, MaxAge <- KeyMaxAge, NoAnswer <- NoKeySet,
  version <- keyVersion, age <- keyAge,
  answer <- IF verdict.kind = "accept" THEN verdict.cached ELSE NoKeySet

TrustIsRecent == Trusted!RecentSpec

\* A token whose key was published throughout its request is refused for one
\* reason only, besides a fetch that failed: between the request's fetch and
\* its second look, another request stored an older set over the fetched one.
ValidTokensPass ==
  /\ verdict.kind = "reject"
  /\ \A v \in verdict.from..keyVersion : verdict.kid \in KeySet[v]
  => verdict.overtaken
=============================================================================
