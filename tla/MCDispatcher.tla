---------------------------- MODULE MCDispatcher ----------------------------
(* Instances of Dispatcher for TLC. *)
EXTENDS Dispatcher, TLC

\* Keys are interchangeable: no definition names a particular one.
KeySymmetry == Permutations(Keys)

\* The rows earlier versions left behind: a run is bound from its launch on.
AllOldRows == {<<"pending", FALSE>>, <<"retry", FALSE>>, <<"running", FALSE>>,
               <<"succeeded", TRUE>>, <<"succeeded", FALSE>>, <<"terminal", FALSE>>,
               <<"failed", FALSE>>, <<"failed", TRUE>>, <<"completed", TRUE>>,
               <<"timed_out", TRUE>>}
NoOldRows == {}
=============================================================================
