----------------------------- MODULE MCLibrary -----------------------------
(***************************************************************************)
(* Instances of Library for TLC.  Memory maps are in KiB: up to four       *)
(* regions, the second one behind the first MiB.  The tag before the map   *)
(* has a size that is no multiple of 8.                                    *)
(***************************************************************************)
EXTENDS Library

Tag(type, size) == [type |-> type, size |-> size, entry_size |-> 0, entries |-> <<>>]
EndTag          == Tag(MULTIBOOT_TAG_TYPE_END, 8)

Region(k, type) == [addr |-> (k - 1) * 1024, len |-> IF k = 1 THEN 640 ELSE 1024, type |-> type]
Maps == UNION {{[k \in 1..n |-> Region(k, f[k])] : f \in [1..n -> {1, 2}]} : n \in 1..4}

MCInfos ==
  {<<Tag(1, size), mmap_tag(map), EndTag>> : size \in {13, 16}, map \in Maps}
    \union {<<Tag(1, 13), Tag(4, 16), Tag(1, 9), EndTag>>}
MCTagTypes == {1, 4, 6}
MCNumbers  == 0..120
=============================================================================
