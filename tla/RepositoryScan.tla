---------------------------- MODULE RepositoryScan ----------------------------
(***************************************************************************)
(* scan_root (retrieval/scan.rs) and the ignore rules it honours           *)
(* (retrieval/ignore.rs): a depth-first walk over a tree whose directory   *)
(* symlinks may point anywhere, with one visited set for the whole walk    *)
(* and a rule set that grows on the way down.                              *)
(*                                                                         *)
(* A repository gives every real directory its entries in name order and   *)
(* the rules of its ignore files.  Names are model data: a rule's glob is  *)
(* a sequence of names (wildcards are left out), a path is a sequence of   *)
(* names.  An entry that cannot be read, a broken link included, is only   *)
(* counted.                                                                *)
(***************************************************************************)
EXTENDS Naturals, Sequences, FiniteSets, SequencesExt

Root    == "root"
Outside == "outside"   \* a directory that is not below the root

(* IgnorePattern::matches: a rule speaks of paths below its own file's     *)
(* directory; one without a slash of any component of them.                *)
RuleMatches(rule, path, isDir) ==
  LET scoped == SubSeq(path, Len(rule.base) + 1, Len(path))
  IN /\ rule.dirOnly => isDir
     /\ IsPrefix(rule.base, path)
     /\ IF rule.anchored THEN rule.glob = scoped
        ELSE rule.glob = scoped \/ \E i \in DOMAIN scoped : rule.glob = <<scoped[i]>>

(* IgnoreSet::is_ignored: the last rule that matches decides.              *)
IsIgnored(rules, path, isDir) ==
  LET matching == {i \in DOMAIN rules : RuleMatches(rules[i], path, isDir)}
  IN /\ matching # {}
     /\ ~rules[CHOOSE i \in matching : \A j \in matching : j <= i].negated

(* IgnoreSet::add_file: the rules of a directory join those from above.    *)
AddRules(rules, own, base) == rules \o [i \in DOMAIN own |-> own[i] @@ [base |-> base]]

(* .git and .tqf are never looked into.                                    *)
Skipped == {".git", ".tqf"}

EmptyReport == [files |-> <<>>, errors |-> 0, ignored |-> 0, cycles |-> 0, escaping |-> 0,
                visited |-> {Root}]

RECURSIVE ScanDirectory(_, _, _, _, _)


ScanSubdirectory(repo, entry, path, rules, report) ==
  IF entry.kind = "link" /\ entry.to = Outside THEN [report EXCEPT !.escaping = @ + 1]
  ELSE IF entry.to \in report.visited THEN [report EXCEPT !.cycles = @ + 1]
  ELSE ScanDirectory(repo, entry.to, path, rules, [report EXCEPT !.visited = @ \cup {entry.to}])

(* One turn of walk's loop.                                                *)
ScanEntry(repo, dir, entry, prefix, rules, report) ==
  LET path == Append(prefix, entry.name)
      isDir == entry.kind \in {"dir", "link"}
  IN CASE entry.name \in Skipped -> report
       [] entry.kind = "broken" -> [report EXCEPT !.errors = @ + 1]
       [] IsIgnored(rules, path, isDir) -> [report EXCEPT !.ignored = @ + 1]
       [] isDir -> ScanSubdirectory(repo, entry, path, rules, report)
       [] OTHER -> [report EXCEPT !.files = Append(@, [path |-> path, of |-> <<dir, entry.name>>])]

(* walk                                                                    *)
ScanDirectory(repo, dir, prefix, rules, report) ==
  LET inner == AddRules(rules, repo[dir].rules, prefix)
  IN FoldLeft(LAMBDA done, entry : ScanEntry(repo, dir, entry, prefix, inner, done),
              report, repo[dir].entries)

ScanRoot(repo) == ScanDirectory(repo, Root, <<>>, <<>>, EmptyReport)

-----------------------------------------------------------------------------
(* The reference: every way to a file that enters no directory twice, with *)
(* what the rules on that way say of it.                                   *)
RECURSIVE Ways(_, _, _, _, _, _)
Ways(repo, dir, prefix, rules, entered, open) ==
  LET inner == AddRules(rules, repo[dir].rules, prefix)
      here == {repo[dir].entries[i] : i \in DOMAIN repo[dir].entries}
      path(e) == Append(prefix, e.name)
      passes(e) == open /\ ~IsIgnored(inner, path(e), e.kind \in {"dir", "link"})
      inside(e) == e.kind \in {"dir", "link"} /\ e.to # Outside /\ e.to \notin entered
  IN {[path |-> path(e), of |-> <<dir, e.name>>, open |-> passes(e)] :
        e \in {e \in here : e.kind = "file"}}
     \cup UNION {Ways(repo, e.to, path(e), inner, entered \cup {e.to}, passes(e)) :
                   e \in {e \in here : inside(e) /\ e.name \notin Skipped}}

(* However links cross the tree, no file is indexed twice, none through a  *)
(* way that a rule closes, and one is missing only if a rule closes a way  *)
(* to it (scan.rs walk: "cycle detection is mandatory").                   *)
ScanIsExact(repo) ==
  LET found == ScanRoot(repo).files
      ways == Ways(repo, Root, <<>>, <<>>, {Root}, TRUE)
  IN /\ \A i, j \in DOMAIN found : found[i].of = found[j].of => i = j
     /\ \A i \in DOMAIN found :
          \E w \in ways : w.open /\ w.path = found[i].path /\ w.of = found[i].of
     /\ \A w \in ways : (\E i \in DOMAIN found : found[i].of = w.of)
                        \/ \E v \in ways : v.of = w.of /\ ~v.open

=============================================================================
