----------------------------- MODULE RateLimiter -----------------------------
(***************************************************************************)
(* The token buckets that guard /v1/auth (src/src/api/ratelimit.rs).       *)
(*                                                                         *)
(* Time is counted in ticks, Minute of them to the minute, and tokens in   *)
(* fractions of 1/Minute, so that a tick refills Rate and a request costs  *)
(* Minute. The code's f64 arithmetic is exact here.                        *)
(*                                                                         *)
(* The window is an observer of one client: it is opened at any moment and *)
(* counts what the limiter lets through from then on.                      *)
(***************************************************************************)
EXTENDS Naturals, FiniteSets

CONSTANTS
  Ips,        (* client addresses                                           *)
  Rate,       (* auth_rate_per_min, at least 1                              *)
  Minute,     (* 60 s                                                       *)
  Idle,       (* 600 s                                                      *)
  MaxBuckets, (* 10_000                                                     *)
  Watched     (* the client that the window observes                        *)

ASSUME LimiterAssumption ==
  /\ Rate \in Nat \ {0} /\ Minute \in Nat \ {0}
  /\ Idle \in Nat /\ Idle >= Minute
  /\ MaxBuckets \in Nat /\ Watched \in Ips

VARIABLES
  held,   (* the addresses that have a bucket                               *)
  tokens, (* [Ips -> 0..Capacity], of an address with a bucket              *)
  last,   (* when a bucket was last refilled                                *)
  now,    (* the clock                                                      *)
  window  (* history: start; passed, since then; restarts, since then;      *)
          (* limited: the client's last request of this tick was refused    *)

buckets == <<held, tokens, last>>
limiterVars == <<buckets, now, window>>

Capacity == Rate * Minute

OpenedNow == [start |-> now, passed |-> 0, restarts |-> 0, limited |-> FALSE]

LimiterTypeOK ==
  /\ held \subseteq Ips
  /\ tokens \in [Ips -> 0..Capacity]
  /\ last \in [Ips -> 0..now]
  /\ now \in Nat
  /\ window \in [start : 0..now, passed : Nat, restarts : Nat, limited : BOOLEAN]

LimiterInit ==
  /\ held = {}
  /\ tokens = [i \in Ips |-> Capacity]
  /\ last = [i \in Ips |-> 0]
  /\ now = 0
  /\ window = OpenedNow

AtMost(n, bound) == IF n <= bound THEN n ELSE bound

(* What the bucket of an address among kept holds by now.                  *)
Refilled(i, kept) ==
  IF i \in kept THEN AtMost(tokens[i] + Rate * (now - last[i]), Capacity) ELSE Capacity

(* A plausible slip: every bucket is dropped once there are many.          *)
KeptNone == IF Cardinality(held) > MaxBuckets THEN {} ELSE held

(* Once the map has grown large, idle buckets are dropped.                 *)
Kept == IF Cardinality(held) > MaxBuckets THEN {i \in held : now - last[i] < Idle} ELSE held

(* check, for each request of a client whose address is known.             *)
Check(ip) ==
  LET have == Refilled(ip, Kept)  allowed == have >= Minute IN
  /\ held' = Kept \cup {ip}
  /\ tokens' = [tokens EXCEPT ![ip] = IF allowed THEN have - Minute ELSE have]
  /\ last' = [last EXCEPT ![ip] = now]
  /\ window' = IF ip # Watched THEN window
               ELSE [window EXCEPT !.passed = IF allowed THEN @ + 1 ELSE @,
                                   !.limited = ~allowed]
  /\ UNCHANGED now

Tick ==
  /\ now' = now + 1
  /\ window' = [window EXCEPT !.limited = FALSE]
  /\ UNCHANGED buckets

OpenWindow == window' = OpenedNow /\ UNCHANGED <<buckets, now>>

(* A new process starts without buckets.                                   *)
LimiterRestart ==
  /\ held' = {}
  /\ tokens' = [i \in Ips |-> Capacity]
  /\ last' = [i \in Ips |-> 0]
  /\ window' = [window EXCEPT !.restarts = @ + 1]
  /\ UNCHANGED now

-----------------------------------------------------------------------------
(* Properties.                                                             *)

(* In no stretch of time does a client get more requests through than one  *)
(* burst, what has been refilled since, and one more burst for every       *)
(* restart: dropping idle buckets gives nothing away (ratelimit.rs).       *)
WindowBound ==
  window.passed * Minute
    <= Capacity + Capacity * window.restarts + Rate * (now - window.start)

(* A client is refused only when it has had its auth_rate_per_min requests *)
(* within the last minute (config.rs), however it spreads them and however *)
(* many refused ones it makes in between.                                  *)
DeniedForAReason ==
  window.limited /\ now - window.start >= Minute => window.passed >= Rate

(* The contract of the limiter.                                            *)
LimitHolds == WindowBound /\ DeniedForAReason
=============================================================================
