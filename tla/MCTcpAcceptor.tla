--------------------------- MODULE MCTcpAcceptor ---------------------------
(* TcpAcceptor with values for TLC.  Connections have no symmetry: NewConn *)
(* chooses among them.                                                     *)
EXTENDS TcpAcceptor

CONSTANTS t1, t2, c1, c2, c3, c4, c5

MCThread == {t1, t2}
MCConn == {c1, c2, c3, c4, c5}
=============================================================================
