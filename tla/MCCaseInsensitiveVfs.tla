------------------------ MODULE MCCaseInsensitiveVfs ------------------------
(* CaseInsensitiveVfs for TLC: one root with at most three entries of every   *)
(* kind, three of its four names equal but for case, and pairs of small roots.*)
EXTENDS CaseInsensitiveView

\* "FOO" < "Foo" < "bar" < "foo".
MCFolded == <<4, 4, 3, 4>>

\* A tree: path -> [kind, link].
Leaf(kind) == [p \in {<<>>} |-> [kind |-> kind, link |-> FALSE]]
Link(tree) == [tree EXCEPT ![<<>>].link = TRUE]
Directory(entries) ==
  [p \in {<<>>} \cup UNION {{<<n>> \o p : p \in DOMAIN entries[n]} : n \in DOMAIN entries} |->
     IF p = <<>> THEN [kind |-> "directory", link |-> FALSE] ELSE entries[p[1]][Tail(p)]]
Filled(names) == Directory([n \in names |-> Leaf("regular")])

Nodes ==
  {Leaf("regular"), Leaf("other"), Link(Leaf("missing")), Link(Filled({})),
   Filled({}), Filled({1, 2}), Filled({2, 3, 4})}

Trees(size) ==
  {Directory(entries) :
     entries \in UNION {[names -> Nodes] : names \in {s \in SUBSET (1..4) : Cardinality(s) <= size}}}

\* The trees at the paths of the roots.
Usable(given, trees) ==
  [usable |-> TRUE, roots |-> given,
   files |-> [p \in UNION {{<<g>> \o p : p \in DOMAIN trees[g]} : g \in Range(given)} |->
                trees[p[1]][Tail(p)]]]
MCCommands ==
  {[Usable(<<>>, <<>>) EXCEPT !.usable = FALSE], Usable(<<>>, <<>>),
   Usable(<<1>>, <<Leaf("regular")>>)}
    \cup {Usable(<<1>>, <<t>>) : t \in Trees(3)}
    \cup {Usable(<<2, 1>>, <<Link(t), u>>) : t, u \in Trees(1)}
==============================================================================
