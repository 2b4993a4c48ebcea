----------------------------- MODULE RecentReads -----------------------------
(***************************************************************************)
(* What a cache with a time to live promises to its readers: an answer may *)
(* be out of date, but not for longer than Staleness.  It promises neither *)
(* that answers never go back to an older version nor that a writer sees   *)
(* its own write.  ProductCache and SigningKeys implement it.              *)
(***************************************************************************)
EXTENDS Integers

CONSTANTS
  Staleness,   \* how long an old version may still be an answer
  MaxAge,      \* bound: ages are counted up to MaxAge
  NoAnswer

VARIABLES
  version,     \* the current version of what is read: 0, 1, ...
  age,         \* age[v]: the time since version v was replaced
  answer       \* the version that is answered in this step, or NoAnswer

recentVars == <<version, age, answer>>

Older(n) == IF n < MaxAge THEN n + 1 ELSE n

Aged(current, ages) ==
  [v \in DOMAIN ages |-> IF v < current THEN Older(ages[v]) ELSE 0]

RecentInit ==
  /\ version = 0
  /\ \A v \in DOMAIN age : age[v] = 0
  /\ answer = NoAnswer

Write == version' = version + 1 /\ answer' = NoAnswer /\ UNCHANGED age

Tick == age' = Aged(version, age) /\ answer' = NoAnswer /\ UNCHANGED version

Answer ==
  /\ \E v \in 0..version : age[v] <= Staleness /\ answer' = v
  /\ UNCHANGED <<version, age>>

\* Something else happens.
Quiet == answer' = NoAnswer /\ UNCHANGED <<version, age>>

RecentNext == Write \/ Tick \/ Answer \/ Quiet

RecentSpec == RecentInit /\ [][RecentNext]_recentVars
=============================================================================
