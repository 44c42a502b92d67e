---------------------------- MODULE MCTaManager ----------------------------
(* TLC instances of TaManager. *)
EXTENDS TaManager, TLC

CONSTANTS Shared,   \* single instance, many sessions
          Kept,     \* the same, kept alive
          Solo,     \* single instance, one session
          Own,      \* an instance per session
          Pta       \* a concurrent pseudo TA

Symmetry == Permutations(Threads)

FlagsOf == [u \in Uuids |->
               CASE u = Shared -> {"single", "multi"}
                 [] u = Kept -> {"single", "multi", "keep"}
                 [] u = Solo -> {"single"}
                 [] u = Own -> {}
                 [] u = Pta -> {"single", "multi", "concurrent"}]

NoCalls == {}
SharedCallsItself == {<<Shared, Shared>>}
SharedCallsBoth == {<<Shared, Shared>>, <<Shared, Solo>>}
=============================================================================
