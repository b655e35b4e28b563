---------------------------- MODULE MCPoolStore ----------------------------
EXTENDS PoolStore

\* A canonical configuration hit in max_clients, in either direction, or in the
\* target port; a canonical list hit in its count or in an entry.
MCCfgJunk == {[Cfg EXCEPT !.max_clients = 0], [Cfg EXCEPT !.max_clients = 9],
              [Cfg EXCEPT !.target_port = 7]}
MCListJunk == {<<>>, <<0, 0>>, <<9>>, <<0, 1, 2, 0, 1>>}
=============================================================================
