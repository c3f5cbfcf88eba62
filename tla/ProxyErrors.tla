---------------------------- MODULE ProxyErrors ----------------------------
(***************************************************************************)
(* The error values of go-sysproxy (errors.go, backend_util.go).           *)
(*                                                                         *)
(* A Go error is a tree: errors.Join makes nodes, nonCriticalError and     *)
(* elevationError wrap.  A caller sees it through errors.As, which visits  *)
(* the whole tree, so a tree is abstracted to the classes found in it:     *)
(*   "hard"       some part that no nonCriticalError wraps                 *)
(*   "warning"    some nonCriticalError                                    *)
(*   "elevation"  some elevationError                                      *)
(* nil is the empty set.  The texts of the errors are left out.            *)
(***************************************************************************)

ErrClass == {"hard", "warning", "elevation"}
Error    == SUBSET ErrClass

Nil       == {}
Hard      == {"hard"}
Warning   == {"warning"}
Elevation == {"warning", "elevation"}

\* IsNonCritical and RequiresElevation: errors.As over the tree.
IsNonCritical(e)     == "warning" \in e
RequiresElevation(e) == "elevation" \in e

\* errors.Join, and combine(first, second).
Join(first, second) == first \cup second

\* flatten keeps the text of an error and drops its classification.
Flatten(e) == IF e = Nil THEN Nil ELSE Hard

\* unclassified flattens only what carries the non-critical class.
Unclassified(e) == IF IsNonCritical(e) THEN Flatten(e) ELSE e

\* etcEnvironmentResult: an /etc/environment failure becomes a warning, and
\* one about privileges when the error is os.ErrPermission.
EtcEnvironmentResult(e, permission) ==
    IF e = Nil \/ IsNonCritical(e) THEN e
    ELSE IF permission THEN Elevation ELSE Warning

(***************************************************************************)
(* steps.finish of the Linux backend: errs are the failed desktop steps,   *)
(* desktop says whether a desktop tool took part, sudo whether             *)
(* sudoDesktopWarning would warn.                                          *)
(***************************************************************************)
StepsFinish(errs, desktop, restoring, etcErr, sudo) ==
    IF errs # Nil THEN Join(errs, Flatten(etcErr))
    ELSE IF ~desktop THEN (IF etcErr = Nil THEN Nil ELSE Hard)
    ELSE IF restoring \/ (etcErr # Nil /\ ~IsNonCritical(etcErr)) THEN etcErr
    ELSE Join(etcErr, IF sudo THEN Warning ELSE Nil)
=============================================================================
