---------------------------- MODULE MCVaultSearch ----------------------------
(* An instance of VaultSearch: three notes, two of them in a directory, and  *)
(* texts in one-byte letters and in a letter that grows in lower case, as    *)
(* the two-byte U+023A, whose lower case U+2C65 takes three bytes.           *)
EXTENDS VaultSearch

MCRunes == {"x", "X", "b", "A", "a", " "}
MCWidth == [r \in MCRunes |-> CASE r = "A" -> 2 [] r = "a" -> 3 [] OTHER -> 1]
MCLower == [r \in MCRunes |-> CASE r = "A" -> "a" [] r = "X" -> "x" [] OTHER -> r]
MCBlanks == {" "}

MCSegments == {"Top.md", "top.md", "Dir", "dir", "e.md", "f.md"}
MCLowerSegment == [s \in MCSegments |-> CASE s = "Top.md" -> "top.md"
                                          [] s = "Dir" -> "dir"
                                          [] OTHER -> s]
MCPaths == {<<"Dir", "e.md">>, <<"Dir", "f.md">>, <<"Top.md">>}
MCCollation == <<<<"Dir">>, <<"Dir", "e.md">>, <<"Dir", "f.md">>, <<"Top.md">>>>

Tag(hashes, name) == [hashes |-> hashes, name |-> name]
Note(text, tags) == [text |-> text, tags |-> tags, scopes |-> {"work"}]
MCFound == Note(<<"b", " ", "b", "b", "b", "X", "b">>, {Tag(0, <<"x">>)})
MCGrown == Note(<<"A", "A", "A", "x">>, {})
MCOther == Note(<<"b">>, {Tag(0, <<"x">>)})
MCNotes == {MCFound, MCGrown, MCOther}

Found(note, time) == [note |-> note, modified |-> time, version |-> 0]
MCVaults == {[p \in MCPaths |-> IF p = <<"Top.md">> THEN Found(n, 2) ELSE Found(MCFound, 1)] :
               n \in {MCFound, MCOther}}

Ask(term, tags, include, sort, limit) ==
  [term |-> term, all |-> tags, any |-> {}, include |-> include, exclude |-> {},
   scopes |-> {"work"}, sort |-> sort, limit |-> limit]
MCQueries == {Ask(<<"x">>, {}, {}, "path_asc", 1),
              Ask(<<"x">>, {}, {}, "modified_desc", 1),
              Ask(<<>>, {Tag(1, <<"X">>)}, {<<"dir">>, <<"Top.md">>}, "", -1),
              Ask(<<>>, {}, {}, "by_size", 1),
              Ask(<<>>, {Tag(0, <<>>)}, {}, "path_asc", 9)}
MCCursors == {[kind |-> "blank", offset |-> 0], [kind |-> "junk", offset |-> 0],
              [kind |-> "number", offset |-> -1], [kind |-> "number", offset |-> 2]}
MCTimes == {1, 2}
===============================================================================
