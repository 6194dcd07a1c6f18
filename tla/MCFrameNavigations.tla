------------------------- MODULE MCFrameNavigations -------------------------
EXTENDS FrameNavigations

\* http://a/, http://a/p, http://a/p#x and http://b/
CONSTANTS root, page, part, away
MCOrigin == [u \in Url |-> IF u = away THEN "b" ELSE "a"]
MCBase == [u \in Url |-> IF u = part THEN page ELSE u]
MCStartsWith == {<<u, v>> \in Url \X Url : u = v \/ <<u, v>> \in {<<page, root>>, <<part, root>>, <<part, page>>}}
MCAdjusts == {<<page, root>>}
MCEnvironments ==
  {e \cup {"waits"} : e \in {{"inPage", "timeout", "paint"}, {"inPage", "redirect"},
                            {"anotherGoto", "fragment"}, {"pageNavigates", "lateRequest"},
                            {"anotherGoto", "restore"}}}
    \cup {{"anotherGoto", "overlap"}}
MCSymmetry == Permutations(Goto)
=============================================================================
