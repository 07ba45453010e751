--------------------------- MODULE MCSearchIndex ---------------------------
(* The search index: a server and a script of two versions, and a work.    *)
(* A custom list and the books that may be on it.  An evaluator and the    *)
(* expressions it is given.  A behaviour is the story of one of them, and   *)
(* the others stay as they were.                                            *)
EXTENDS SearchIndex, CustomLists, Expressions, TLC

\* A Work with two pools and another with one; two claims carry from isbn to
\* gutenberg if both are strong, and do not if one is weak.
MCPoolWork == ("overdrive" :> "w1") @@ ("gutenberg" :> "w1") @@ ("isbn" :> "w2")
MCTitleOf == [e \in Editions |-> IF e = "isbn" THEN "Emma" ELSE "Persuasion"]
MCClaims ==
  {[ends |-> {"overdrive", "isbn"}, strength |-> 80]}
  \cup {[ends |-> {"overdrive", "gutenberg"}, strength |-> s] : s \in {60, 80}}

\* Names mean an object, None, a truth value, the function that is an attribute of
\* another one, or nothing; one object leads to another, or to None.
MCContexts ==
  {("a" :> Leaf("book") @@ "b" :> Leaf("two")), ("a" :> Leaf("safe method") @@ "b" :> Leaf("book")),
   ("a" :> Leaf("unsafe method")), ("a" :> Leaf("None") @@ "b" :> Leaf("two")), ("a" :> Leaf("True") @@ "b" :> Leaf("False"))}
MCFields ==
  ("book" :> ("b" :> Leaf("author") @@ "a" :> Leaf("safe method"))) @@ ("author" :> ("b" :> Leaf("name")))
  @@ ("two" :> ("b" :> Leaf("None")))

\* All expressions of up to MaxTokens tokens: names, numbers, signs, one operator of
\* each of four levels, dots, groups, slices and calls of at most one argument.
MaxTokens == 5
MCNames == {"a", "b"}
Joined(S, T) == {s \o t : s \in S, t \in T}
MCOfLength[n \in 0..MaxTokens] ==
  IF n = 0 THEN {}
  ELSE IF n = 1 THEN {<<t>> : t \in MCNames \cup {"1"}}
  ELSE LET functions == {<<t>> : t \in MCNames \cup {"len"}}
           dots == {<<".", t>> : t \in MCNames}
           names == {<<t>> : t \in MCNames}
           short(k) == IF n > k THEN MCOfLength[n - k] ELSE {}
       IN Joined({<<"-">>}, MCOfLength[n - 1])
          \cup UNION {Joined(Joined(MCOfLength[i], {<<o>>}), MCOfLength[n - 1 - i]) : i \in 1..(n - 2), o \in {"-", "**", "<", "and"}}
          \cup Joined(Joined({<<"(">>}, short(2)), {<<")">>})
          \cup Joined(functions, Joined(Joined({<<"(">>}, short(3)), {<<")">>}) \cup Joined(Joined({<<"[">>}, short(3)), {<<"]">>}))
          \cup (IF n = 3 THEN Joined(names, dots \cup {<<"(", ")">>}) ELSE {})
          \cup (IF n = 5 THEN Joined(Joined(names, dots), dots \cup {<<"(", ")">>}) ELSE {})
MCScripts == UNION {MCOfLength[n] : n \in 1..MaxTokens}

VARIABLE story

indexVars == <<story, searchVars, listsVars, dslVars>>

IndexInit ==
  /\ story \in {"index", "lists", "expressions"}
  /\ SearchInit /\ (story # "index" => \A w \in Works : ready[w])
  /\ ListsInit
  /\ (story # "expressions" => script = <<"a">>) /\ DslInit

IndexNext ==
  /\ UNCHANGED story
  /\ \/ story = "index" /\ SearchNext /\ UNCHANGED <<listsVars, dslVars>>
     \/ story = "lists" /\ ListsNext /\ UNCHANGED <<searchVars, dslVars>>
     \/ story = "expressions" /\ DslNext /\ UNCHANGED <<searchVars, listsVars>>

\* The fairness of SearchSpec, in its own story.
IndexSpec ==
  /\ IndexInit /\ [][IndexNext]_indexVars
  /\ \A c \in Clients : WF_searchVars(story = "index" /\ Proceed(c))
  /\ \A c \in Clients \ Servers : WF_searchVars(story = "index" /\ Start(c))

\* A rebuild of the index repairs it, and the alias comes back to searches: the
\* index of one version is emptied and filled again, and the alias is deleted from
\* all indices before it is put on one.
SearchRecovers == RebuildsRepair /\ (story = "index" => AliasComesBack)
=============================================================================
