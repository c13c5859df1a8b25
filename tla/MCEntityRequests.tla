---- MODULE MCEntityRequests ----
(***************************************************************************)
(* A small instance of EntityRequests: the first types of tests/basic      *)
(* (Bar requires Foo; Empty has a constructor without arguments).          *)
(***************************************************************************)
EXTENDS EntityRequests, TLC

CONSTANTS Foo, Bar, Empty, c1, c2

TwoPrereqs == (Foo :> {}) @@ (Bar :> {Foo})
TwoOrder == << Foo, Bar >>

ThreePrereqs == (Foo :> {}) @@ (Bar :> {Foo}) @@ (Empty :> {})
EmptyFirst == << Empty, Foo, Bar >>

====
