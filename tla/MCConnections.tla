--------------------------- MODULE MCConnections ---------------------------
(***************************************************************************)
(* Instances of Connections for TLC.                                       *)
(***************************************************************************)
EXTENDS Connections, TLC

CONSTANTS t1, t2, t3, d1

ThreeThreads == {t1, t2, t3}
TwoThreads == {t1, t2}
OneDatabase == {d1}
Dsn == {"dsn"}
Fields == {"fields"}
BothForms == {"dsn", "fields"}
ThreadsAlike == Permutations(Threads)
=============================================================================
