----------------------------- MODULE MCMigration -----------------------------
(***************************************************************************)
(* Constants for checking Migration with TLC.                              *)
(***************************************************************************)
EXTENDS Migration

CONSTANTS r1, r2, r3

\* Of the seven scripts: the one that creates the table, one that only modifies
\* a column, one that adds a column, and the last, which updates the rows before
\* it adds one.
MCScripts == <<<<"once">>, <<"again">>, <<"once">>, <<"again", "once">>>>
=============================================================================
