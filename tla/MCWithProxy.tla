---------------------------- MODULE MCWithProxy ----------------------------
(***************************************************************************)
(* Small instances of WithProxy for TLC.                                   *)
(*                                                                         *)
(* No definition compares the values of two keys or names a value, so the  *)
(* values of each key can be renamed on their own: it is enough to start   *)
(* with the same value everywhere.  Every call has the scope "global",     *)
(* which covers all keys.  So the calls differ in nothing but their names, *)
(* and it is enough that the one Chosen is the first to leave "ready".     *)
(***************************************************************************)
EXTENDS WithProxy, TLC

Chosen == CHOOSE c \in Call : TRUE

InOrder == phase'[Chosen] = "ready" => \A c \in Call : phase'[c] = "ready"

MCInit == /\ Init
          /\ store = [k \in Key |-> CHOOSE v \in Value : TRUE]
          /\ scope = [c \in Call |-> "global"]

MCSpec     == MCInit /\ [][Next /\ InOrder]_vars
MCFairSpec == MCSpec /\ \A c \in Call : WF_vars(Progress(c))
=============================================================================
