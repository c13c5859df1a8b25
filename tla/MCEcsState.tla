---- MODULE MCEcsState ----
(***************************************************************************)
(* A small instance of EcsState: the component types of tests/basic (Bar   *)
(* requires Foo, Meh requires Foo and Bar, Empty requires nothing), with   *)
(* Empty persistent, and two Systems with a registry each.                 *)
(***************************************************************************)
EXTENDS EcsStateRefinement, TLC

CONSTANTS Foo, Bar, Meh, Empty, Graph, Sprite, mover, drawer

MCComps == {Foo, Bar, Meh, Empty}
MCOrder == << Foo, Bar, Meh, Empty >>
MCPrereqs == (Foo :> {}) @@ (Bar :> {Foo}) @@ (Meh :> {Foo, Bar}) @@ (Empty :> {})
MCOwner == (mover :> Graph) @@ (drawer :> Sprite)

\* mover hears of {Foo, Bar}, drawer of {Existence, Bar, Empty}.
MCLikeness == (mover :> {Foo, Bar}) @@ (drawer :> {EXISTENCE, Bar, Empty})

\* Two registries of which one is for every entity, whatever it has.
MCAnyLikeness == (mover :> {Foo, Bar}) @@ (drawer :> {EXISTENCE})

====
