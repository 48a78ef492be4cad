--------------------------- MODULE PhraseMatcher ---------------------------
(***************************************************************************)
(* The AhoCorasick automaton of the narrative miner's matcher: it counts,  *)
(* in the name and the symbol of a candidate, the phrases of the topics.   *)
(* A node of the trie is the sequence of letters that leads to it, the     *)
(* root the empty one.  Weights, which belong to phrases, and the topics a *)
(* phrase stands for are left to the caller.                               *)
(***************************************************************************)
EXTENDS Naturals, SequencesExt

CONSTANTS
    Letter,         \* what isAlphaNumeric accepts
    PhraseSets,     \* the sets of phrases the matcher may hold
    Texts           \* the texts it may search

VARIABLES
    phrases,        \* the keys of phraseToTopics
    searched,       \* the text
    pos,            \* the index in it, from 1
    node,           \* the node of the automaton
    counted         \* results, by phrase

searchVars == <<phrases, searched, pos, node, counted>>

\* What is left of a text when every character that is no letter is passed over.
Letters(text) ==
    LET kept[n \in 0..Len(text)] ==
            IF n = 0 THEN <<>>
            ELSE IF text[n] \in Letter THEN Append(kept[n - 1], text[n]) ELSE kept[n - 1]
    IN kept[Len(text)]

\* extractPhrases gives no phrase without a letter.
ASSUME PhraseAssumption ==
    /\ \A ps \in PhraseSets : \A p \in ps : p \in Seq(Range(p)) /\ Letters(p) # <<>>
    /\ \A text \in Texts : text \in Seq(Range(text))

-----------------------------------------------------------------------------
(* insert and build *)

Nodes == {<<>>} \union UNION {{SubSeq(Letters(p), 1, k) : k \in 1..Len(Letters(p))} :
                                 p \in phrases}

HasChild(n, ch) == Append(n, ch) \in Nodes

\* Bug: every failed match starts again at the root.
FailLinks_ToRoot == [n \in Nodes |-> <<>>]

\* fail: for a child by ch, the links of its parent are followed up to a node
\* that has a child by ch.  The queue links the shorter nodes first.
FailLinks ==
    LET fail[n \in Nodes] ==
            IF Len(n) <= 1 THEN <<>>
            ELSE LET ch == Last(n)
                     found[m \in {s \in Nodes : Len(s) < Len(n)}] ==
                        IF HasChild(m, ch) THEN Append(m, ch)
                        ELSE IF m = <<>> THEN <<>> ELSE found[fail[m]]
                 IN found[fail[Front(n)]]
    IN fail

\* outputs: the phrases that end in a node, and those of its link.
Outputs ==
    LET out[n \in Nodes] ==
            {p \in phrases : Letters(p) = n}
                \union (IF n = <<>> THEN {} ELSE out[FailLinks[n]])
    IN out

-----------------------------------------------------------------------------
(* search *)

SearchInit ==
    /\ phrases = {} /\ searched = <<>> /\ counted = <<>>
    /\ pos = 1 /\ node = <<>>

\* One search is followed, from the start.
StartSearch(ps, text) ==
    /\ searched = <<>>
    /\ phrases' = ps /\ searched' = text
    /\ counted' = [p \in ps |-> 0]
    /\ UNCHANGED <<pos, node>>

Reads(ch) == pos <= Len(searched) /\ searched[pos] = ch

Skip ==
    /\ \E ch \in Range(searched) \ Letter : Reads(ch)
    /\ pos' = pos + 1
    /\ UNCHANGED <<phrases, searched, node, counted>>

\* The inner loop: node.fail, or the root when there is none.  At the root nothing
\* changes, and the loop goes on.
FollowFail ==
    /\ \E ch \in Letter : Reads(ch) /\ ~HasChild(node, ch)
    /\ node' = FailLinks[node]
    /\ UNCHANGED <<phrases, searched, pos, counted>>

Advance ==
    /\ \E ch \in Letter : Reads(ch) /\ HasChild(node, ch)
    /\ node' = Append(node, searched[pos])
    /\ counted' = [p \in phrases |-> counted[p] + IF p \in Outputs[node'] THEN 1 ELSE 0]
    /\ pos' = pos + 1
    /\ UNCHANGED <<phrases, searched>>

SearchNext ==
    \/ \E ps \in PhraseSets, text \in Texts : StartSearch(ps, text)
    \/ Skip \/ FollowFail \/ Advance

SearchSpec == SearchInit /\ [][SearchNext]_searchVars /\ WF_searchVars(SearchNext)

-----------------------------------------------------------------------------
(* Properties *)

\* How often a sequence of letters occurs in another.
Occurrences(s, text) ==
    Cardinality({i \in 1..Len(text) : i + Len(s) - 1 <= Len(text)
                                      /\ SubSeq(text, i, i + Len(s) - 1) = s})

\* As far as the text is read, each phrase is counted once for every occurrence,
\* whatever it overlaps with, and never else.
CountsOccurrences ==
    \A p \in phrases :
        counted[p] = Occurrences(Letters(p), Letters(SubSeq(searched, 1, pos - 1)))

\* narrative-miner/src/__tests__/engine.test.ts:184, "expect(result).not.toBeNull()":
\* the search through a candidate's name comes to its end.
SearchEnds == searched # <<>> ~> pos > Len(searched)
=============================================================================
