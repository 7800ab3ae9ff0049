----------------------------- MODULE MCTreeGen -----------------------------
(* All files over a few bytes: an identifier "a", a keyword ";", an        *)
(* ERROR "?", a processing instruction "%", blanks " " and "F" (a form     *)
(* feed), and "V", a byte of a hidden token, or white space for the parser *)
(* only.  The other bytes are leaves each; the shape of the tree above the *)
(* leaves is free, and so is, in XML, what inner nodes hide at their ends. *)
EXTENDS TreeGen

MCByte == {"a", ";", "?", "%", "N", " ", "F", "V"}
White == {" ", "F", "V"}
TokenKind(byte) == IF byte = "a" THEN "identifier"
                   ELSE IF byte = "?" THEN Error ELSE byte

Bytestrings(bytes, n) == UNION {[1..k -> bytes] : k \in 0..n}
Tokens(text) == SetToSortSeq({k \in DOMAIN text : text[k] \notin White}, <)

\* parents of n nodes in preorder
Ancestors(p, i) ==
  LET up[j \in DOMAIN p] == IF p[j] = 0 THEN {j} ELSE {j} \cup up[p[j]]
  IN  up[i]
\* every shape of 1 to 4 nodes
Shapes == {<<0>>, <<0, 1>>, <<0, 1, 1>>, <<0, 1, 2>>,
           <<0, 1, 1, 1>>, <<0, 1, 1, 3>>, <<0, 1, 2, 1>>, <<0, 1, 2, 2>>,
           <<0, 1, 2, 3>>}

Leafs(p) == SetToSortSeq({i \in DOMAIN p \ {1} : \A j \in DOMAIN p : p[j] # i}, <)

\* leafs of the subtree of i, as positions among all leafs
Covering(p, i) ==
  {k \in DOMAIN Leafs(p) : i \in Ancestors(p, Leafs(p)[k])}

Least(S) == CHOOSE k \in S : \A j \in S : k <= j
Greatest(S) == CHOOSE k \in S : \A j \in S : k >= j

\* Inner nodes end with their last leaf, or "wide", before the next one; the
\* root then begins with the text.
MCTree(text, p, wide) ==
  LET at == Tokens(text)
      leaf(i) == i \in Range(Leafs(p))
      begin(i) == IF i = 1 /\ wide THEN 0
                  ELSE IF Covering(p, i) = {} THEN Len(text)
                  ELSE at[Least(Covering(p, i))] - 1
      end(i) == LET k == Greatest(Covering(p, i))
                IN  IF i = 1 THEN Len(text)
                    ELSE IF leaf(i) \/ ~wide THEN at[k]
                    ELSE IF k = Len(at) THEN Len(text) ELSE at[k + 1] - 1
      kind(i) == IF leaf(i) THEN TokenKind(text[begin(i) + 1])
                 ELSE IF i = 1 THEN "program" ELSE "block"
  IN  [i \in DOMAIN p |->
         [kind |-> kind(i), named |-> kind(i) # ";", parent |-> p[i],
          start |-> begin(i), end |-> end(i)]]

FilesOf(langs, bytes, length) ==
  {[lang |-> l, name |-> n, text |-> t, tree |-> MCTree(t, p, w)] :
     <<l, n, t, p, w>> \in
       {<<l, n, t, p, w>> \in langs \X {<<"N">>, <<"a">>}
                           \X Bytestrings(bytes, length) \X Shapes \X BOOLEAN :
          /\ Len(Tokens(t)) = Len(Leafs(p))
          /\ n = <<"a">> => Len(t) <= 1
          /\ w => l = Xml}}

MCFiles ==
  FilesOf({Java}, {"a", ";", " "}, 3)
  \cup FilesOf({Java}, {"a", "?", "V", "F"}, 2)
  \cup FilesOf({Xml}, {"a", "V", " "}, 2)
  \cup FilesOf({Xml}, {"?", "%"}, 1)
BlankFiles == {f \in FilesOf({Java}, {"a", " "}, 2) : f.text # << >>}

MCUntyped == {<<Xml, "%">>}
\* " " stands for spaces and line breaks alike
MCLineBreak == " "
MCSpelling(kind) == IF kind \in {Java, Xml} \X {";"} THEN <<";">> ELSE << >>
MCFormatted(byte) == IF byte \in {" ", "F"} THEN " " ELSE None
MCKindHash(kind) == IF kind = Error THEN 2 ELSE IF kind[2] = "block" THEN 3 ELSE 5
MCLabelHash(label) == IF label = None THEN 0 ELSE IF label = <<"a">> THEN 7 ELSE 9
MCBlankHash(blank) == 11 * Len(blank)
=============================================================================
