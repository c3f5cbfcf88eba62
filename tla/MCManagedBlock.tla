-------------------------- MODULE MCManagedBlock ---------------------------
(***************************************************************************)
(* The files of BlockFiles over a small alphabet.                          *)
(***************************************************************************)
EXTENDS BlockFiles, TLC

CONSTANT v1

MCAlphabet == {Plain("begin"), Plain("end"), WithCR(Plain("end"), TRUE),
               Plain("text"), WithCR(Plain("text"), TRUE)}
              \cup {Export("http_proxy", v) : v \in Val \ {DefaultNoProxy}}

MCBodies == {<<>>, <<Export("http_proxy", v1)>>,
             <<Export("AUTOPROXY", v1), Export("no_proxy", DefaultNoProxy)>>}
=============================================================================
