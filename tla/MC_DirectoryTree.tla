-------------------------- MODULE MC_DirectoryTree --------------------------
EXTENDS DirectoryTree

Repeat(char, n) == [i \in 1..n |-> char]

\* A leaf; each name is erased again, or only some.
Leaf(names, erased, sizes) == [kind |-> "leaf", names |-> names, erased |-> erased, sizes |-> sizes]
Parent(names) == [kind |-> "parent", names |-> names, erased |-> names, sizes |-> {2}]

\* Long names whose nodes grow by two sizes when they are joined.
LongNames == {<<1>>, Repeat(1, 4) \o <<2>>, Repeat(1, 14) \o <<2>>, <<2>>}
Merging == Leaf(LongNames, LongNames \ {Repeat(1, 14) \o <<2>>}, {2})

\* Enough short names for a block to be divided.
Dividing == Leaf({<<1>>, <<1, 1>>, <<2>>, <<3, 1>>, <<3, 2>>}, {<<2>>}, {2})

\* Metadata that is replaced by larger and smaller one.
Replacing == Leaf({<<1>>, <<1, 1>>, <<2>>}, {<<1>>}, {2, 4})

\* Parents that become full, of names that share nothing and of some that do.
Filling == Parent({Repeat(i, 12) : i \in 1..4})
Sharing ==
  [Parent({Repeat(1, 6) \o <<2>>, Repeat(1, 14) \o <<2>>, Repeat(1, 14) \o <<3>>, Repeat(2, 12), <<3>>})
    EXCEPT !.erased = {Repeat(1, 14) \o <<2>>}]

MCScenes == {Merging, Dividing, Replacing, Filling, Sharing}
MCSymmetry == Permutations(Children)
=============================================================================
