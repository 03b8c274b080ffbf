---------------------------- MODULE MCMigrations ----------------------------
(***************************************************************************)
(* A small instance of Migrations: an old binary and two new ones, which   *)
(* embed one file more, on an empty database.                              *)
(***************************************************************************)
EXTENDS Migrations, TLC

CONSTANTS old, new1, new2

OldAndNew == {old, new1, new2}

Binaries == (old :> 2) @@ (new1 :> 3) @@ (new2 :> 3)
=============================================================================
