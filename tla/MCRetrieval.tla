----------------------------- MODULE MCRetrieval -----------------------------
(***************************************************************************)
(* The retrieval subsystem: the programs that keep an index of a tree and  *)
(* the searches over one.  They share the walk, the lexical index and the  *)
(* file format, and never a state: `tqf sync` and `tqf unsync` work on     *)
(* files, the live engine in memory; a scan, a query and a vector search   *)
(* have no state of their own.  A behaviour is one of the three programs;  *)
(* the stateless one picks one subject and is over.                        *)
(***************************************************************************)
EXTENDS SyncCommands, LiveSync, RepositoryScan

CONSTANTS Idf, RrfK, NameOrder, GroupSize, CoarseDim,
          Subjects     \* repositories, queries, lanes, vectors and stores

VARIABLES program, subject

Query == INSTANCE Searches

programVars == <<program, subject>>
allVars == <<vars, liveVars, programVars>>

None == [kind |-> "none"]

RetrievalInit ==
  /\ Init /\ LiveInit
  /\ program \in {"commands", "live", "search"} /\ subject = None

PickSubject ==
  /\ program = "search" /\ subject = None
  /\ subject' \in Subjects
  /\ UNCHANGED <<vars, liveVars, program>>

RetrievalNext ==
  \/ program = "commands" /\ Next /\ UNCHANGED <<liveVars, programVars>>
  \/ program = "live" /\ LiveNext /\ UNCHANGED <<vars, programVars>>
  \/ PickSubject

RetrievalSpec == RetrievalInit /\ [][RetrievalNext]_allVars



-----------------------------------------------------------------------------
(* Two commands at a time on two roots, three in all; three edits under a  *)
(* sink of one path.  Every repository of three directories whose two      *)
(* inner ones hold a file and a link, under one of four rule sets; three   *)
(* files of a few texts with a short query, and one set of them with every *)
(* shape of a query; lanes in every order; vectors of eight numbers, and   *)
(* stores of five vectors of norm five.                                    *)
MCTerms == [Ab |-> <<"ab">>, abC |-> <<"abc", "ab", "c">>, Zed |-> <<"zed">>]
MCOrder == <<"a.rs", "b.rs">>

Small == [p \in AllPaths |-> IF p = "a.rs" THEN <<"Ab">> ELSE Absent]
Large == [p \in AllPaths |-> IF p = "a.rs" THEN <<"Ab">> ELSE <<"abC", "Ab">>]
MCTrees == {Small, Large}
MCTexts == {<<"Ab">>, <<"abC", "Ab">>}
MCFirstTree == Small

Entry(name, kind, to) == [name |-> name, kind |-> kind, to |-> to]
Rule(glob, negated, dirOnly, anchored) ==
  [glob |-> glob, negated |-> negated, dirOnly |-> dirOnly, anchored |-> anchored]

RuleSets == {<<>>, <<Rule(<<"f">>, FALSE, FALSE, FALSE), Rule(<<"d", "f">>, TRUE, FALSE, TRUE)>>,
             <<Rule(<<"a">>, FALSE, TRUE, FALSE)>>, <<Rule(<<"a", "f">>, FALSE, FALSE, TRUE)>>}

Links == {Entry("a", "broken", Root)} \cup
         {Entry("a", "link", to) : to \in {Root, "d", "e", Outside}}

Repositories ==
  {[dir \in {Root, "d", "e"} |->
      CASE dir = Root -> [entries |-> <<Entry(".git", "dir", "e"), top, Entry("d", "dir", "d"),
                                        Entry("f", "file", Root)>>, rules |-> rules]
        [] dir = "d" -> [entries |-> <<low, Entry("e", "dir", "e"), Entry("f", "file", Root)>>,
                         rules |-> inner]
        [] OTHER -> [entries |-> <<deep, Entry("f", "file", Root)>>, rules |-> <<>>]] :
     <<top, low, deep, rules, inner>> \in Links \X Links \X Links \X RuleSets \X RuleSets}

(* ln of 8/3, 8/5 and so on, in thousandths, for up to three documents.    *)
MCIdf == <<<<288>>, <<693, 182>>, <<981, 470, 134>>>>

MCNames == <<"a.rs", "b.rs", "d.rs">>
SearchTexts == {<<"Ab">>, <<"abC", "Ab">>, <<"Zed", "Zed", "Ab">>, <<"Zed">>}
Documents3(x, y, z) ==
  <<[path |-> "a.rs", text |-> x], [path |-> "d.rs", text |-> y], [path |-> "b.rs", text |-> z]>>
ShortQueries ==
  {[text |-> <<"Ab">>, words |-> 1, questions |-> 0, marks |-> {"identifier"}],
   [text |-> <<"Zed", "abC">>, words |-> 2, questions |-> 0, marks |-> {}]}
Queries ==
  {q \in [text : {<<"Ab">>, <<"Zed", "abC">>}, words : {1, 4, 6}, questions : 0..2,
          marks : SUBSET Query!Marks] : Query!Possible(q)}
Rankings == UNION {SetToSeqs(S) : S \in SUBSET ToSet(MCNames)}
Lanes3(exact, lex, semantic) ==
  <<[lane |-> "exact", hits |-> exact], [lane |-> "lexical", hits |-> lex],
    [lane |-> "semantic", hits |-> semantic]>>

Vector8(k, m) == [i \in 1..8 |-> ((i * k + i * i * m) % 17) - 8]
OfNorm5 == {<<3, 4>>, <<-4, 3>>, <<0, 0>>, <<0, -5>>}

MCSubjects ==
  {[kind |-> "repository", repository |-> r] : r \in Repositories}
  \cup {[kind |-> "query", docs |-> Documents3(t[1], t[2], t[3]), query |-> q, limit |-> n] :
          t \in SearchTexts \X SearchTexts \X SearchTexts, q \in ShortQueries, n \in 1..2}
  \cup {[kind |-> "query", docs |-> Documents3(<<"Ab">>, <<"abC">>, <<"Zed">>), query |-> q,
         limit |-> 2] : q \in Queries}
  \cup {[kind |-> "lanes", lanes |-> Lanes3(e, l, s)] :
          e \in Rankings, l \in {<<"a.rs", "b.rs", "d.rs">>, <<"b.rs">>}, s \in Rankings}
  \cup {[kind |-> "vector", v |-> Vector8(k, m), w |-> Vector8(m, k + 1), signs |-> signs] :
          k \in 0..3, m \in 0..3,
          signs \in {<<1, 1, 1, 1, 1, 1, 1, 1>>, <<1, -1, -1, 1, -1, 1, 1, -1>>}}
  \cup {[kind |-> "store", vectors |-> <<t[1], t[2], t[3], <<4, 3>>, <<-5, 0>>>>, chosen |-> chosen,
         iterations |-> n, query |-> <<-2, 3>>, k |-> 2] :
          t \in OfNorm5 \X OfNorm5 \X OfNorm5, chosen \in {<<4, 1>>, <<2, 5, 3>>}, n \in 1..2}

Symmetry == Permutations(Procs) \cup Permutations(Roots)

=============================================================================
