---------------------------- MODULE MCThreadpool ----------------------------
(* A pool of three threads and graphs that meet each kind of node.            *)
EXTENDS Threadpool

SomeGraphs == {<<"mulmat", "plain">>, <<"plain", "nop", "fused", "plain">>}
=============================================================================
