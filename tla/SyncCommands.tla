----------------------------- MODULE SyncCommands -----------------------------
(***************************************************************************)
(* `tqf sync` and `tqf unsync` (app/sync.rs) over the project-local        *)
(* index.tqi and project.toml and the machine-global roots.toml            *)
(* (retrieval/tqi).  Every command is a process of its own and nothing     *)
(* excludes two of them: both index.tqi and roots.toml are replaced        *)
(* through one temporary file whose name does not depend on the process,   *)
(* so that what a command holds is a handle on a file that another one may *)
(* truncate, rename or remove.  A command stops at any step (Crash: killed *)
(* or failed, which leaves the same files behind).                         *)
(*                                                                         *)
(* Bound: MaxCommands commands.  project.toml and the reading of a whole   *)
(* file are single steps here.                                             *)
(***************************************************************************)
EXTENDS TqiIndex

CONSTANTS Procs, Roots,
          Trees,        \* what a scan may find: path -> text or Absent
          MaxCommands

ASSUME SyncAssumption ==
  /\ MaxCommands \in Nat
  /\ IsFiniteSet(Roots) /\ "no root" \notin Roots

VARIABLES
  index,       \* root -> index.tqi
  temp,        \* root -> index.tqi.tmp
  project,     \* root -> project.toml: <<>> or <<identity>>
  registry,    \* roots.toml: the names in it, or Garbled
  registryTmp, \* roots.toml.tmp
  pc, root,    \* of each process: its next step, the root it works on,
  docs,        \* the documents it scanned,
  contents,    \* what it built of them,
  parts,       \* the parts of the new index,
  handle,      \* where the file it writes an index through went,
  wanted,      \* the names it is about to write,
  naming,      \* and where the file it writes them through went
  uuids,       \* how many identities were drawn
  started,     \* how many commands were started
  assembled,   \* root -> what the syncs of it put together (history)
  disturbed,   \* roots on which two commands worked at once (history)
  raced,       \* whether two commands updated roots.toml at once (history)
  synced       \* roots whose sync succeeded and which nobody unsynced (history)

files == <<index, temp, project>>
names == <<registry, registryTmp>>
built == <<docs, contents, parts>>
command == <<pc, root, built, handle, wanted, naming>>
history == <<assembled, disturbed, raced, synced>>
vars == <<files, names, command, uuids, started, history>>

NoNames  == <<"no registry">>
Garbled  == <<"garbled">>
NamesFile == {NoNames, Garbled} \cup {<<"roots", s>> : s \in SUBSET Roots}
Blank    == <<"roots", {}>>   \* an empty TOML file has no roots

Nowhere    == "no root"
NoContents == BuildContents(BuildLexical(<<>>), <<>>)
NoParts    == [superblock |-> Hole, body |-> <<>>, table |-> Hole]

(* A handle on an open file: where the name it was opened under went.      *)
Handles == {"none", "temp", "live", "gone"}

Init ==
  /\ index = [r \in Roots |-> NoFile] /\ temp = [r \in Roots |-> NoFile]
  /\ project = [r \in Roots |-> <<>>]
  /\ registry = NoNames /\ registryTmp = NoNames
  /\ pc = [p \in Procs |-> "idle"] /\ root = [p \in Procs |-> Nowhere]
  /\ docs = [p \in Procs |-> <<>>] /\ contents = [p \in Procs |-> NoContents]
  /\ parts = [p \in Procs |-> NoParts] /\ handle = [p \in Procs |-> "none"]
  /\ wanted = [p \in Procs |-> {}] /\ naming = [p \in Procs |-> "none"]
  /\ uuids = 0 /\ started = 0
  /\ assembled = [r \in Roots |-> {}]
  /\ disturbed = {} /\ raced = FALSE /\ synced = {}

-----------------------------------------------------------------------------
Busy(r) == \E p \in Procs : root[p] = r

Goto(p, from, to) == pc[p] = from /\ pc' = [pc EXCEPT ![p] = to]

Begin(p, r, first) ==
  /\ started < MaxCommands /\ started' = started + 1
  /\ disturbed' = IF Busy(r) THEN disturbed \cup {r} ELSE disturbed
  /\ Goto(p, "idle", first)
  /\ root' = [root EXCEPT ![p] = r]

(* The end of a command; what it had open is closed.                       *)
Ended(p) ==
  /\ pc' = [pc EXCEPT ![p] = "idle"] /\ root' = [root EXCEPT ![p] = Nowhere]
  /\ docs' = [docs EXCEPT ![p] = <<>>] /\ contents' = [contents EXCEPT ![p] = NoContents]
  /\ parts' = [parts EXCEPT ![p] = NoParts] /\ handle' = [handle EXCEPT ![p] = "none"]
  /\ wanted' = [wanted EXCEPT ![p] = {}]

Stop(p) == Ended(p) /\ naming' = [naming EXCEPT ![p] = "none"]

(* run_sync, index: the scan and the walk of an empty table, and the       *)
(* lexical index of what they found.  The user edits the tree in between   *)
(* as he likes, so every sync finds one of Trees.                          *)
Scan(p, r, found) ==
  LET walk == FullCorrectnessWalk(found, <<>>)
  IN /\ Begin(p, r, "previous")
     /\ docs' = [docs EXCEPT ![p] = Documents(walk)]
     /\ contents' = [contents EXCEPT ![p] =
                       BuildContents(BuildLexical(Documents(walk)), walk.contents)]
     /\ UNCHANGED <<files, names, parts, handle, wanted, naming, uuids, assembled, raced, synced>>

(* Mutant of ReadPrevious: the index that is there is not looked at.       *)
ReadPreviousNever(p) ==
  LET r == root[p]
      new == Encode(contents[p], <<>>, uuids + 1)
  IN /\ Goto(p, "previous", "create")
     /\ uuids' = uuids + 1
     /\ parts' = [parts EXCEPT ![p] = new]
     /\ assembled' = [assembled EXCEPT ![r] = @ \cup
          {[superblock |-> new.superblock[2], docs |-> docs[p]]}]
     /\ UNCHANGED <<files, names, root, docs, contents, handle, wanted, naming, started,
                    disturbed, raced, synced>>

(* index: the index that is there, if it is readable, gives identity and   *)
(* generation; codec::write lays out the new file.                         *)
ReadPrevious(p) ==
  LET r == root[p]
      previous == IF Readable(index[r]) THEN <<ReadIndex(index[r])>> ELSE <<>>
      new == Encode(contents[p], previous, uuids + 1)
  IN /\ Goto(p, "previous", "create")
     /\ uuids' = IF previous = <<>> THEN uuids + 1 ELSE uuids
     /\ parts' = [parts EXCEPT ![p] = new]
     /\ assembled' = [assembled EXCEPT ![r] = @ \cup
          {[superblock |-> new.superblock[2], docs |-> docs[p]]}]
     /\ UNCHANGED <<files, names, root, docs, contents, handle, wanted, naming, started,
                    disturbed, raced, synced>>

(* Mutants of Create: the index itself is truncated; the handle is lost.   *)
CreateInPlace(p) ==
  /\ Goto(p, "create", "superblock")
  /\ index' = [index EXCEPT ![root[p]] = <<>>]
  /\ handle' = [handle EXCEPT ![p] = "live"]
  /\ UNCHANGED <<temp, project, names, root, built, wanted, naming, uuids, started, history>>

(* codec::write: File::create truncates the temporary file whoever has it  *)
(* open.                                                                   *)
Create(p) ==
  /\ Goto(p, "create", "superblock")
  /\ temp' = [temp EXCEPT ![root[p]] = <<>>]
  /\ handle' = [handle EXCEPT ![p] = "temp"]
  /\ UNCHANGED <<index, project, names, root, built, wanted, naming, uuids, started, history>>

(* One write_all through p's handle.                                       *)
Through(p, at, cells) ==
  LET to(name, file) == IF handle[p] = name
                        THEN [file EXCEPT ![root[p]] = WriteAt(@, at, cells)] ELSE file
  IN index' = to("live", index) /\ temp' = to("temp", temp)

WriteSuperblock(p) ==
  /\ Goto(p, "superblock", "body")
  /\ Through(p, 1, <<parts[p].superblock>>)
  /\ UNCHANGED <<project, names, root, built, handle, wanted, naming, uuids, started, history>>

WriteBody(p) ==
  /\ Goto(p, "body", "table")
  /\ Through(p, 2, parts[p].body)
  /\ UNCHANGED <<project, names, root, built, handle, wanted, naming, uuids, started, history>>

(* The generation table, sync_all, and the handle is closed.               *)
WriteTable(p) ==
  /\ Goto(p, "table", "rename")
  /\ Through(p, 2 + Len(parts[p].body), <<parts[p].table>>)
  /\ handle' = [handle EXCEPT ![p] = "none"]
  /\ UNCHANGED <<project, names, root, built, wanted, naming, uuids, started, history>>

(* The handles of the others follow the files: what was the index is gone, *)
(* what was the temporary file is the index.                               *)
Moved(r, name) ==
  [p \in Procs |->
     IF root[p] # r THEN handle[p]
     ELSE IF handle[p] = "live" THEN "gone"
     ELSE IF handle[p] = name THEN "live" ELSE handle[p]]

(* codec::write renames whatever the temporary name stands for; the sync   *)
(* fails when another one took it away.                                    *)
Rename(p) ==
  LET r == root[p]
  IN /\ pc[p] = "rename"
     /\ IF temp[r] = NoFile
        THEN Stop(p) /\ UNCHANGED <<index, temp>>
        ELSE /\ index' = [index EXCEPT ![r] = temp[r]]
             /\ temp' = [temp EXCEPT ![r] = NoFile]
             /\ Goto(p, "rename", "project") /\ handle' = Moved(r, "temp")
             /\ UNCHANGED <<root, built, wanted, naming>>
     /\ UNCHANGED <<project, names, uuids, started, history>>

(* index: read the file back, and write its identity into project.toml.    *)
WriteProject(p) ==
  LET r == root[p]
      loaded == ReadIndex(index[r])
  IN /\ pc[p] = "project"
     /\ IF ~Readable(index[r])
        THEN Stop(p) /\ UNCHANGED project
        ELSE /\ project' = [project EXCEPT ![r] =
                   <<[uuid |-> loaded.uuid, generation |-> loaded.generation]>>]
             /\ Goto(p, "project", "register")
             /\ UNCHANGED <<root, built, handle, wanted, naming>>
     /\ UNCHANGED <<index, temp, names, uuids, started, history>>

-----------------------------------------------------------------------------
(* run_unsync: a root without an index is not synced, and nothing more is  *)
(* done about it.  Otherwise the index goes first.                         *)
Unsync(p, r) ==
  /\ IF index[r] = NoFile
     THEN /\ pc[p] = "idle" /\ started < MaxCommands /\ started' = started + 1
          /\ UNCHANGED <<pc, root, disturbed>>
     ELSE Begin(p, r, "forget")
  /\ synced' = synced \ {r}
  /\ UNCHANGED <<files, names, built, handle, wanted, naming, uuids, assembled, raced>>

RemoveIndex(p) ==
  LET r == root[p]
  IN /\ pc[p] = "forget"
     /\ IF index[r] = NoFile
        THEN Stop(p) /\ UNCHANGED index
        ELSE /\ index' = [index EXCEPT ![r] = NoFile]
             /\ Goto(p, "forget", "unproject") /\ handle' = Moved(r, "nothing")
             /\ UNCHANGED <<root, built, wanted, naming>>
     /\ UNCHANGED <<temp, project, names, uuids, started, history>>

RemoveProject(p) ==
  /\ Goto(p, "unproject", "deregister")
  /\ project' = [project EXCEPT ![root[p]] = <<>>]
  /\ UNCHANGED <<index, temp, names, root, built, handle, wanted, naming, uuids, started, history>>

-----------------------------------------------------------------------------
(* load_registry: a registry that is missing or does not parse is empty.   *)
LoadRegistry(file) == IF file[1] = "roots" THEN file[2] ELSE {}

Updating(q) == pc[q] \in {"open names", "write names", "rename names"}

Updates(p, from, all) ==
  /\ Goto(p, from, "open names")
  /\ raced' = (raced \/ \E q \in Procs \ {p} : Updating(q))
  /\ wanted' = [wanted EXCEPT ![p] = all]
  /\ UNCHANGED <<root, built, handle, naming>>

(* Mutant of Register: the registry is not read first.                     *)
RegisterOnly(p) ==
  /\ Updates(p, "register", {root[p]})
  /\ UNCHANGED <<files, names, uuids, started, assembled, disturbed, synced>>

(* register: the file is rewritten even if the root is in it.              *)
Register(p) ==
  /\ Updates(p, "register", LoadRegistry(registry) \cup {root[p]})
  /\ UNCHANGED <<files, names, uuids, started, assembled, disturbed, synced>>

Deregister(p) ==
  LET there == LoadRegistry(registry)
  IN /\ pc[p] = "deregister"
     /\ IF root[p] \in there
        THEN Updates(p, "deregister", there \ {root[p]})
        ELSE Stop(p) /\ UNCHANGED raced
     /\ UNCHANGED <<files, names, uuids, started, assembled, disturbed, synced>>

(* atomic_write_toml: create or truncate, write, rename.                   *)
OpenNames(p) ==
  /\ Goto(p, "open names", "write names")
  /\ registryTmp' = Blank
  /\ naming' = [naming EXCEPT ![p] = "temp"]
  /\ UNCHANGED <<files, registry, root, built, handle, wanted, uuids, started, history>>

(* A shorter text over a longer one leaves the tail of the longer.         *)
Overwritten(old, all) ==
  IF Cardinality(LoadRegistry(old)) > Cardinality(all) THEN Garbled ELSE <<"roots", all>>

WriteNames(p) ==
  LET to(name, file) == IF naming[p] = name THEN Overwritten(file, wanted[p]) ELSE file
  IN /\ Goto(p, "write names", "rename names")
     /\ registry' = to("live", registry) /\ registryTmp' = to("temp", registryTmp)
     /\ naming' = [naming EXCEPT ![p] = "none"]
     /\ UNCHANGED <<files, root, built, handle, wanted, uuids, started, history>>

(* The rename ends the command, well or not.                               *)
RenameNames(p) ==
  LET follow(q) == IF q = p THEN "none"
                   ELSE IF naming[q] = "live" THEN "gone"
                   ELSE IF naming[q] = "temp" THEN "live" ELSE naming[q]
  IN /\ pc[p] = "rename names"
     /\ IF registryTmp = NoNames
        THEN Stop(p) /\ UNCHANGED <<names, synced>>
        ELSE /\ registry' = registryTmp /\ registryTmp' = NoNames
             /\ synced' = IF root[p] \in wanted[p] THEN synced \cup {root[p]} ELSE synced
             /\ Ended(p) /\ naming' = [q \in Procs |-> follow(q)]
     /\ UNCHANGED <<files, uuids, started, assembled, disturbed, raced>>

(* The process ends where it stands.                                       *)
Crash(p) ==
  /\ pc[p] # "idle"
  /\ Stop(p)
  /\ UNCHANGED <<files, names, uuids, started, history>>

Step(p) ==
  \/ ReadPrevious(p) \/ Create(p) \/ WriteSuperblock(p) \/ WriteBody(p) \/ WriteTable(p)
  \/ Rename(p) \/ WriteProject(p) \/ RemoveIndex(p) \/ RemoveProject(p)
  \/ Register(p) \/ Deregister(p) \/ OpenNames(p) \/ WriteNames(p) \/ RenameNames(p)
  \/ Crash(p)

Next ==
  \E p \in Procs :
    \/ Step(p)
    \/ \E r \in Roots : Unsync(p, r) \/ \E found \in Trees : Scan(p, r, found)

Spec == Init /\ [][Next]_vars

-----------------------------------------------------------------------------
Steps == {"idle", "previous", "create", "superblock", "body", "table", "rename", "project",
          "register", "forget", "unproject", "deregister",
          "open names", "write names", "rename names"}

TypeOK ==
  /\ registry \in NamesFile /\ registryTmp \in NamesFile
  /\ pc \in [Procs -> Steps] /\ root \in [Procs -> Roots \cup {Nowhere}]
  /\ \A p \in Procs : pc[p] # "idle" => root[p] \in Roots
  /\ handle \in [Procs -> Handles] /\ naming \in [Procs -> Handles]
  /\ wanted \in [Procs -> SUBSET Roots]
  /\ started \in 0..MaxCommands /\ uuids \in Nat
  /\ disturbed \subseteq Roots /\ raced \in BOOLEAN /\ synced \subseteq Roots

(* The paths whose text holds an identifier, and those whose text has a    *)
(* term of it.                                                             *)
Holding(all, raw) ==
  {all[i].path : i \in {i \in DOMAIN all : raw \in ToSet(all[i].text)}}

Answering(all, raw) ==
  {all[i].path : i \in {i \in DOMAIN all :
                          ToSet(Tokenize(all[i].text)) \cap ToSet(TermsOf[raw]) # {}}}

(* A server that starts now and accepts an index gets the files of one     *)
(* walk and answers from them: for every identifier and every query, the   *)
(* paths whose text that sync read and which hold it.  Whatever two syncs  *)
(* wrote into one another's file, the checksums keep a mixture out         *)
(* (tqi/codec.rs segment_slice, tqi/loaded.rs load_root).                  *)
AnswersAreOfOneSync ==
  \A r \in Roots : Readable(index[r]) =>
    LET loaded == LoadRoot(index[r])
    IN \E sync \in assembled[r] :
         /\ sync.superblock = index[r][1][2]
         /\ loaded.paths = [i \in DOMAIN sync.docs |-> sync.docs[i].path]
         /\ IdsResolve(loaded.lexical)
         /\ \A raw \in Tokens :
              /\ ExactLookup(loaded.lexical, raw) = Holding(sync.docs, raw)
              /\ Ranked(loaded.lexical, <<raw>>) = Answering(sync.docs, raw)

(* An interrupted sync leaves the previous index intact: unless two        *)
(* commands worked on the root at once, index.tqi is absent or complete    *)
(* after any crash (tqi/codec.rs write).                                   *)
PreviousIntact ==
  \A r \in Roots \ disturbed : index[r] = NoFile \/ Readable(index[r])

(* A rewritten index is the same index, one generation on, unless two      *)
(* commands worked on the root at once (tqi/codec.rs write).               *)
IdentityKept ==
  [][\A r \in Roots \ disturbed' :
       /\ Readable(index[r]) /\ index'[r] # index[r] /\ index'[r] # NoFile
       => /\ Readable(index'[r])
          /\ ReadIndex(index'[r]).uuid = ReadIndex(index[r]).uuid
          /\ ReadIndex(index'[r]).generation = ReadIndex(index[r]).generation + 1]_vars

(* resolve: a server finds what was synced and not unsynced since, as long *)
(* as no two commands rewrote roots.toml at once and none shared the root  *)
(* (tqi/registry.rs register, deregister).                                 *)
SyncedIsFound ==
  raced \/ synced \ disturbed \subseteq {r \in LoadRegistry(registry) : index[r] # NoFile}

(* The inductive invariant.  What a process has built is complete before   *)
(* it writes the first byte of it;                                         *)
FileOf(new) == <<new.superblock>> \o new.body \o <<new.table>>

Sound(new) ==
  /\ new.body \in Seq(ToSet(new.body))
  /\ FileOf(new) # NoFile /\ Readable(FileOf(new)) /\ FileOf(new)[1] = new.superblock

Building(p) == pc[p] \in {"create", "superblock", "body", "table", "rename"}

BuiltIsSound ==
  /\ \A p \in Procs :
       pc[p] = "previous" => contents[p].files \in Seq(ToSet(contents[p].files))
  /\ \A p \in Procs : Building(p) => Sound(parts[p])

(* a process that has a root to itself finds in the temporary file what it *)
(* has written and nothing else, and in the index the one that it read;    *)
Alone(p) == pc[p] # "idle" /\ root[p] \notin disturbed

RootsAreApart ==
  /\ \A p \in Procs : pc[p] = "idle" <=> root[p] = Nowhere
  /\ \A p, q \in Procs : Alone(p) /\ root[q] = root[p] => p = q

Soundly(p, step, file) ==
  pc[p] = step => temp[root[p]] = file /\ (step # "rename" => handle[p] = "temp")

WritesAsBuilt(p) ==
  /\ Soundly(p, "superblock", <<>>)
  /\ Soundly(p, "body", <<parts[p].superblock>>)
  /\ Soundly(p, "table", <<parts[p].superblock>> \o parts[p].body)
  /\ Soundly(p, "rename", FileOf(parts[p]))

SucceedsPrevious(p) ==
  Building(p) /\ Readable(index[root[p]]) =>
    /\ parts[p].superblock[2].uuid = index[root[p]][1][2].uuid
    /\ parts[p].superblock[2].generation = index[root[p]][1][2].generation + 1

(* its sync ends with an index, its unsync begins with the root forgotten; *)
Leaving(p) ==
  \/ pc[p] \in {"forget", "unproject", "deregister"}
  \/ Updating(p) /\ root[p] \notin wanted[p]

Entering(p) == pc[p] = "register" \/ (Updating(p) /\ root[p] \in wanted[p])

EndsAsBegun(p) ==
  /\ pc[p] = "project" => Readable(index[root[p]])
  /\ Entering(p) => index[root[p]] # NoFile
  /\ Leaving(p) => root[p] \notin synced

OwnRootIsKept ==
  \A p \in Procs : Alone(p) => WritesAsBuilt(p) /\ SucceedsPrevious(p) /\ EndsAsBegun(p)

(* and one that has roots.toml to itself writes what it read and its root, *)
(* or without its root.                                                    *)
NamesAreApart ==
  ~raced =>
    /\ \A p, q \in Procs : Updating(p) /\ Updating(q) => p = q
    /\ \A p \in Procs :
         /\ Updating(p) => \/ wanted[p] = LoadRegistry(registry) \cup {root[p]}
                           \/ wanted[p] = LoadRegistry(registry) \ {root[p]}
         /\ pc[p] = "write names" => naming[p] = "temp" /\ registryTmp = Blank
         /\ pc[p] = "rename names" => registryTmp = <<"roots", wanted[p]>>

SyncIInv ==
  /\ TypeOK
  /\ DOMAIN index = Roots /\ DOMAIN temp = Roots
  /\ DOMAIN contents = Procs /\ DOMAIN parts = Procs
  /\ BuiltIsSound /\ RootsAreApart /\ OwnRootIsKept /\ NamesAreApart
  /\ PreviousIntact /\ SyncedIsFound

(* What makes the answers those of one sync.  An index is built of one     *)
(* walk, and the superblock of it vouches for the table of that index,     *)
(* which vouches for its segments;                                         *)
BuiltOfAWalk(all, new) ==
  \E found \in Trees :
    LET walk == FullCorrectnessWalk(found, <<>>)
    IN all = Documents(walk) /\ new = BuildContents(BuildLexical(all), walk.contents)

VouchesForAWalk(sync) ==
  \E found \in Trees :
    LET walk == FullCorrectnessWalk(found, <<>>)
        new  == BuildContents(BuildLexical(sync.docs), walk.contents)
    IN /\ sync.docs = Documents(walk)
       /\ sync.superblock.hash = <<"table", GenerationTable(new, sync.superblock.generation)>>

(* and the first cell of a file, whoever wrote the others, is a hole or    *)
(* the superblock of a sync of that root.                                  *)
Vouched(r, superblock) == \E sync \in assembled[r] : sync.superblock = superblock

BeginsVouched(r, file) ==
  /\ file \in Seq(ToSet(file))
  /\ file # <<>> /\ file[1][1] = "superblock" => Vouched(r, file[1][2])

SyncsAreOfAWalk ==
  /\ DOMAIN assembled = Roots /\ DOMAIN docs = Procs
  /\ \A p \in Procs : pc[p] = "previous" => BuiltOfAWalk(docs[p], contents[p])
  /\ \A r \in Roots : \A sync \in assembled[r] : VouchesForAWalk(sync)

FilesBeginVouched ==
  /\ \A p \in Procs :
       Building(p) => /\ parts[p].superblock[1] = "superblock"
                      /\ Vouched(root[p], parts[p].superblock[2])
  /\ \A r \in Roots : BeginsVouched(r, index[r]) /\ BeginsVouched(r, temp[r])

AnswersIInv == SyncIInv /\ SyncsAreOfAWalk /\ FilesBeginVouched

=============================================================================
