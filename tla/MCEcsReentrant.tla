---- MODULE MCEcsReentrant ----
(***************************************************************************)
(* A small instance of EcsReentrant: Bar requires Foo and is persistent,   *)
(* two Systems with a registry each, three entities.                       *)
(***************************************************************************)
EXTENDS EcsReentrant

CONSTANTS Foo, Bar, Graph, Sprite, mover, drawer

MCOrder == << Foo, Bar >>
MCPrereqs == (Foo :> {}) @@ (Bar :> {Foo})
MCRegistries == (Graph :> << mover >>) @@ (Sprite :> << drawer >>)

\* mover hears of Foo, drawer of Existence, Foo and Bar together.
MCLikeness == (mover :> {Foo}) @@ (drawer :> {EXISTENCE, Foo, Bar})

====
