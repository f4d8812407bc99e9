------------------------------- MODULE Server --------------------------------
(***************************************************************************)
(* The life of the process (src/src/main.rs, lib.rs): it opens and         *)
(* migrates the database, serves with a new rate limiter, dies, and is     *)
(* started again: the database survives, the limiter's buckets do not.     *)
(***************************************************************************)
EXTENDS Migrations, RateLimiter

CONSTANTS
  MaxTime,    (* bound: ticks of the clock                                  *)
  MaxDeaths   (* bound: times the process dies                              *)

ASSUME ServerAssumption == MaxTime \in Nat /\ MaxDeaths \in Nat

VARIABLE deaths

serverVars == <<migrationVars, limiterVars, deaths>>

ServerInit == MigrationInit /\ LimiterInit /\ deaths = 0

Start == Boot /\ UNCHANGED <<limiterVars, deaths>>

Open == Migrate /\ UNCHANGED <<limiterVars, deaths>>

(* A request on /v1/auth.                                                  *)
Request(ip) ==
  /\ proc = "up"
  /\ Check(ip)
  /\ UNCHANGED <<migrationVars, deaths>>

Observe == OpenWindow /\ UNCHANGED <<migrationVars, deaths>>

Pass == now < MaxTime /\ Tick /\ UNCHANGED <<migrationVars, deaths>>

Death ==
  /\ deaths < MaxDeaths
  /\ Die /\ LimiterRestart
  /\ deaths' = deaths + 1

ServerNext ==
  \/ Start \/ Open \/ Death \/ Observe \/ Pass
  \/ \E ip \in Ips : Request(ip)

ServerSpec == ServerInit /\ [][ServerNext]_serverVars
=============================================================================
