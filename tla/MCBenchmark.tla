---------------------------- MODULE MCBenchmark ----------------------------
(* An instance of Benchmark for TLC: one client, and a server without any.  *)
EXTENDS Benchmark, TLC

CONSTANTS s1, s2, c1

OneClient == <<c1>>
OneAtS1 == c1 :> s1
=============================================================================
