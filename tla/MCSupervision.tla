---------------------------- MODULE MCSupervision ----------------------------
(* Plans of three tasks, apart, chained, joined, forked and cyclic: one that two can
   do and one holds the service of, one whose service nobody able holds, and one that
   needs a capability nobody offers. *)
EXTENDS Supervision, TLC

CONSTANTS e1, e2

Three == {1, 2, 3}
AnyoneForOne == (1 :> {e1, e2} @@ 2 :> {e1} @@ 3 :> {})
HoldersOfOne == (1 :> {e1} @@ 2 :> {e2} @@ 3 :> {e1, e2})
Apart == {}
PlansOfThree == {Apart, {<<2, 1>>, <<3, 2>>}, {<<3, 1>>, <<3, 2>>}, {<<2, 1>>, <<3, 1>>},
                 {<<2, 3>>, <<3, 2>>}}
=============================================================================
