---- MODULE KvMap ----
(***************************************************************************)
(* KvMap (source/ecsKvMap.hpp), the wrapper over std::unordered_map in     *)
(* which State keeps each type of component.  What the properties tell     *)
(* apart is which keys a collection holds, so a collection is the set of   *)
(* its keys; the component stored under a key is left out.                 *)
(***************************************************************************)

\* KvMap::count, 0 or 1 for a map with unique keys, read as a condition.
count(coll, key) == key \in coll

\* KvMap::try_emplace and KvMap::insert: the collection afterwards.  They
\* report whether the key was new, that is ~count(coll, key).
try_emplace(coll, key) == coll \union {key}

\* KvMap::erase.  Erasing an absent key changes nothing.
erase(coll, key) == coll \ {key}

====
