------------------------------ MODULE MCServer -------------------------------
(* The seven scripts of src/migrations, runs of repeatable statements taken *)
(* together; two clients of whom one is watched, and room for one bucket    *)
(* before idle ones are dropped.                                            *)
EXTENDS Server

CONSTANTS a, b

MCMigrations == <<
  <<"again">>,
  <<"again">>,
  <<"again", "once", "again", "once", "again">>,
  <<"once", "once", "once", "again">>,
  <<"once", "once", "once", "again", "once">>,
  <<"once", "once", "once", "once", "once", "once", "again">>,
  <<"again">> >>
=============================================================================
