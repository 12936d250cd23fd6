----------------------------- MODULE MCDialogue -----------------------------
(* Small texts over the characters that matter.                            *)
EXTENDS Dialogue

Few == {"a", Blank, Quote, Escape}
Texts(n) == UNION {[1..k -> Few] : k \in 0..n}

MCChars == Few \cup Space \cup {NUL} \cup {"b", "e", "x", "i", "t"}

Name == <<"a", "b">>
MCArgLists ==
  {<<<<"a">>>>, <<<<"e", "x", "i", "t">>>>}
    \cup {<<Name>>} \cup {<<Name, p>> : p \in Texts(3)}
    \cup {<<Name, p, q>> : p, q \in Texts(2)}
    \cup {<<<<"a">>, p>> : p \in Texts(1)}

MCFewLines == {<<"a", "a">>, <<Blank, Blank>>}

MCTypedLines == {Good_Bye} \cup (Texts(4) \ {<<>>})
                  \cup {Name \o <<Blank>> \o t : t \in Texts(4)}
=============================================================================
