------------------------------ MODULE MCPgConn ------------------------------
(* Small instances of PgConn for TLC.                                      *)
EXTENDS PgConn, TLC

\* Up to two statements in a message, the empty message included.
AllBatches == UNION {[1..n -> Kind] : n \in 0..2}

Single == {<<k>> : k \in Kind}
Blank == {<<>>}
Begins == {<<"BEGIN">>, <<"SQL">>}

\* Connections are interchangeable.
Symmetry == Permutations(Conns)
=============================================================================
