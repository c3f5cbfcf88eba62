-------------------------- MODULE MCEtcEnvironment --------------------------
(***************************************************************************)
(* A small instance of EtcEnvironment and AtomicFile for TLC: two          *)
(* goroutines, one of which is also in a WithProxy; no file, or one with   *)
(* proxy variables, a default and a custom bypass list.                    *)
(***************************************************************************)
EXTENDS EtcEnvironment, TLC

MCFiles ==
    {Absent,
     [EmptyText EXCEPT !.proxy = TRUE,
                       !.bypass = [k \in NoProxyName |-> IF k = "no_proxy" THEN "own" ELSE "default"]]}
=============================================================================
