-------------------------- MODULE CaseInsensitiveView --------------------------
(***************************************************************************)
(* What the overlay of CaseInsensitiveVfs must show, said of the file       *)
(* system alone: no reading order, no sorting, no runs of neighbours.       *)
(***************************************************************************)
EXTENDS CaseInsensitiveVfs

Aliases(dir, name) == {n \in Entries(dir) : Folded[n] = Folded[name]}

\* The view has one name of each set of aliases: the lower case one.
Preferred(dir) == {n \in Entries(dir) : Aliases(dir, n) = {n} \/ IsLower(n)}

IsAmbiguous(dir) ==
  \E n \in Entries(dir) :
    Aliases(dir, n) # {n} /\ ~\E m \in Aliases(dir, n) : IsLower(m)

\* The paths under the roots that preferred names lead to.
View ==
  {p \in DOMAIN command.files :
     /\ p[1] \in Range(command.roots)
     /\ \A i \in 2 .. Len(p) : p[i] \in Preferred(SubSeq(p, 1, i - 1))}

Viewed(kind) == {p \in View : command.files[p].kind = kind}

\* What the overlay cannot show.
IsUnsupported(path) ==
  \/ command.files[path].kind \in {"missing", "other"}
  \/ Len(path) = 1 /\ command.files[path].kind = "regular"
  \/ Len(path) > 1 /\ command.files[path].kind = "directory" /\ command.files[path].link
  \/ command.files[path].kind = "directory" /\ IsAmbiguous(path)

\* The virtual directory a token is in, and the virtual path of each token.
Nest(path, t) ==
  CASE t.token = "open" -> Append(path, t.name)
    [] t.token = "close" -> Front(path)
    [] OTHER -> path
Nesting(tokens) == FoldLeft(Nest, <<>>, tokens)
VirtualPath(tokens, k) == Append(Nesting(SubSeq(tokens, 1, k - 1)), tokens[k].name)

------------------------------------------------------------------------------
(* Properties of CaseInsensitiveVfs.                                        *)

\* The overlay of a successful run has each regular file of the view once, at
\* its own path and standing for itself, each directory of it, and nothing
\* else: its name is the lower case one wherever it has aliases.
OverlayIsTheView ==
  pc = "done" /\ exit = 0 =>
    LET tokens == output.overlay
        opens == {k \in DOMAIN tokens : tokens[k].token = "open"}
        files == {k \in DOMAIN tokens : tokens[k].token = "file"}
    IN  /\ Nesting(tokens) = <<>>
        /\ {VirtualPath(tokens, k) : k \in opens} = Viewed("directory")
        /\ {VirtualPath(tokens, k) : k \in files} = Viewed("regular")
        /\ \A k \in files : tokens[k].external = VirtualPath(tokens, k)
        /\ Cardinality(files) = Cardinality(Viewed("regular"))

\* The overlay is a function of the view, not of the order of the options or
\* of readdir: siblings come in increasing order of their folded names, roots
\* in that of their paths (vfs_test.cc: "overlay depends on root or directory
\* iteration order").
OverlayIsOrdered ==
  pc = "done" /\ exit = 0 =>
    LET tokens == output.overlay
        named == {k \in DOMAIN tokens : tokens[k].token # "close"}
        dir(k) == Nesting(SubSeq(tokens, 1, k - 1))
    IN  \A k, l \in named :
          k < l /\ dir(k) = dir(l) =>
            IF dir(k) = <<>> THEN tokens[k].name < tokens[l].name
                             ELSE Folded[tokens[k].name] < Folded[tokens[l].name]

\* Unless a system call fails, a usable command line fails exactly if its
\* roots have something the overlay cannot show; and no overlay is left of
\* a run that fails before it writes.
VerdictIsOfTheView ==
  pc = "done" /\ command.usable /\ ~fault =>
    /\ exit = (IF command.roots = <<>> \/ \E p \in View : IsUnsupported(p) THEN 1 ELSE 0)
    /\ output.state = (IF exit = 0 THEN "complete" ELSE "absent")
==============================================================================
