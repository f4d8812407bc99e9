----------------------------- MODULE Migrations ------------------------------
(***************************************************************************)
(* Startup of the database (src/src/db/mod.rs): every migration above      *)
(* user_version is executed, one statement after the other, each committed *)
(* by itself, and then the version is written. The process may die between *)
(* any two of these steps. An ALTER TABLE ADD COLUMN can be executed once, *)
(* all other statements (IF NOT EXISTS, the backfill of 006) repeatedly.   *)
(***************************************************************************)
EXTENDS Naturals, Sequences

CONSTANT MIGRATIONS  (* the statements of each script: "once" for ALTER     *)
                     (* TABLE, "again" for a run of repeatable statements   *)

ASSUME MigrationsAssumption == MIGRATIONS \in Seq(Seq({"once", "again"}))

VARIABLES
  version, (* PRAGMA user_version                                           *)
  done,    (* the statements whose effect is in the schema                  *)
  proc,    (* "down", "migrating", "up", or "refused": startup failed       *)
  at,      (* while migrating: the script and statement to execute next     *)
  cut      (* history: scripts in which a process died                      *)

migrationVars == <<version, done, proc, at, cut>>

Scripts == 1..Len(MIGRATIONS)
Statements(k) == {k} \X (1..Len(MIGRATIONS[k]))

MigrationTypeOK ==
  /\ version \in 0..Len(MIGRATIONS)
  /\ done \subseteq UNION {Statements(k) : k \in Scripts}
  /\ proc \in {"down", "migrating", "up", "refused"}
  /\ at \in Nat \X Nat
  /\ cut \subseteq Scripts

MigrationInit ==
  /\ version = 0 /\ done = {} /\ proc = "down" /\ at = <<1, 1>> /\ cut = {}

(* Db::open: the version is read once.                                     *)
Boot ==
  /\ proc \in {"down", "refused"}
  /\ proc' = "migrating" /\ at' = <<version + 1, 1>>
  /\ UNCHANGED <<version, done, cut>>

InScript == proc = "migrating" /\ at[1] \in Scripts

Execute ==
  /\ InScript /\ at \in Statements(at[1])
  /\ IF MIGRATIONS[at[1]][at[2]] = "once" /\ at \in done
     THEN proc' = "refused" /\ UNCHANGED <<done, at>>
     ELSE done' = done \cup {at} /\ at' = <<at[1], at[2] + 1>> /\ UNCHANGED proc
  /\ UNCHANGED <<version, cut>>

(* A plausible slip: the version is written before the script has ended.   *)
MarkVersionEarly ==
  /\ InScript /\ at[2] > 1
  /\ version' = at[1]
  /\ at' = IF at \in Statements(at[1]) THEN at ELSE <<at[1] + 1, 1>>
  /\ UNCHANGED <<done, proc, cut>>

MarkVersion ==
  /\ InScript /\ at \notin Statements(at[1])
  /\ version' = at[1] /\ at' = <<at[1] + 1, 1>>
  /\ UNCHANGED <<done, proc, cut>>

Serve ==
  /\ proc = "migrating" /\ at[1] \notin Scripts
  /\ proc' = "up"
  /\ UNCHANGED <<version, done, at, cut>>

(* The process dies; what it has committed stays.                          *)
Die ==
  /\ proc \in {"migrating", "up"}
  /\ proc' = "down"
  /\ cut' = IF InScript THEN cut \cup {at[1]} ELSE cut
  /\ UNCHANGED <<version, done, at>>

Migrate == Execute \/ MarkVersion \/ Serve

-----------------------------------------------------------------------------
(* Properties.                                                             *)

(* The version never runs ahead of the schema, whatever died when: a       *)
(* server that accepts requests has every table and column (db/mod.rs).    *)
ServesOnFullSchema ==
  /\ \A k \in 1..version : Statements(k) \subseteq done
  /\ proc = "up" => \A k \in Scripts : Statements(k) \subseteq done

(* A start is refused only for a script in which an earlier process died.  *)
RefusedForAReason == proc = "refused" => at[1] \in cut

(* Startup after any sequence of deaths.                                   *)
StartsSound == ServesOnFullSchema /\ RefusedForAReason
=============================================================================
