---------------------------- MODULE MCMigration ----------------------------
(***************************************************************************)
(* Instances of Migration for TLC: an old binary with two migrations and a *)
(* new one with three, of the kinds found in migrations/*.sql (migration   *)
(* 007 holds all of them).                                                 *)
(***************************************************************************)
EXTENDS Migration, TLC

CONSTANTS old, new

OldAndNew == {old, new}
ThreeBodies == << <<"table">>, <<"column", "rows", "create", "rename">>, <<"column">> >>
OldAndNewKnow == (old :> 2) @@ (new :> 3)

\* The old binary is a development build whose second file had another
\* checksum, which the released one accepts, as for migration 010.
WithDevelopment ==
  (old :> <<"one", "twoDev", "three">>) @@ (new :> <<"one", "two", "three">>)
DevelopmentAccepted == {<<"twoDev", "two">>}

NoRuns == [s \in Statements |-> 0]
Empty(engine) ==
  [engine |-> engine, foreign |-> FALSE, schema |-> {}, temp |-> {}, runs |-> NoRuns,
   ledgerTable |-> FALSE, ledger |-> {}]
\* Before the ledger was introduced: some additive changes have been made.
Legacy(engine) == [Empty(engine) EXCEPT !.schema = {<<1, 1>>, <<2, 1>>}]
\* An installation of an earlier version.
Installed(engine) ==
  [Empty(engine) EXCEPT !.schema = {<<1, 1>>}, !.ledgerTable = TRUE, !.ledger = {<<1, "one">>}]
Foreign(engine) == [Empty(engine) EXCEPT !.foreign = TRUE]

\* Only SQLite takes a database over that has no ledger.
AnyDatabase ==
  {Legacy("sqlite")}
    \cup {Empty(e) : e \in {"sqlite", "postgres", "mysql"}}
    \cup {Installed(e) : e \in {"sqlite", "postgres", "mysql"}}
    \cup {Foreign(e) : e \in {"sqlite", "postgres", "mysql"}}
=============================================================================
