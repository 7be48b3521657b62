---------------------------- MODULE MCMockServer ----------------------------
(***************************************************************************)
(* Two clients, one of which may have an umlaut in its user name.  Every   *)
(* opening is a synchronization, with the right PIN or a wrong one: without *)
(* HKSYN there is only less to do.                                         *)
(***************************************************************************)
EXTENDS MockServer

CONSTANTS c1, c2

MCClients == {c1, c2}
MCUmlauts == {c2}
MCOpenings == {<<TRUE, TRUE>>, <<TRUE, FALSE>>}
MCMaxMessages == [c \in MCClients |-> IF c = c1 THEN 3 ELSE 2]
=============================================================================
