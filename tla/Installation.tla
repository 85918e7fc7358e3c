--------------------------- MODULE Installation ----------------------------
(***************************************************************************)
(* src/src/app/serve.rs, setup/flow.rs and setup/receipt.rs: one start of  *)
(* `tqf` after another, each with the pinned checkpoint or with a file of  *)
(* the user's, through download (SourceFetch), conversion (Conversion) and *)
(* receipt to a server, with calls cut off at any step of any of them.     *)
(*                                                                         *)
(* A user's file is hashed in place and may disappear again; its graph     *)
(* need not be the one the runtime is made for.                            *)
(***************************************************************************)
EXTENDS SourceFetch, FiniteSetsExt

CONSTANTS
  Pinned, Own, Foreign,  \* the pinned checkpoint; files a user may point at
  NumItems

ASSUME InstallationAssumption ==
  NumItems \in Nat \ {0} /\ IsInjective(<<Pinned, Own, Foreign>>)

Sources  == {Pinned, Own, Foreign}
Complete == {Pinned, Own}     \* those with the canonical roles and shapes

VARIABLES
  partial, cjournal, container, cpc, source, table, cursor, dirty,
  receipt,      \* NoFile, or what it vouches for and the tokenizer's file
  own,          \* the user's files are there
  phase         \* of the running process; "stopped" when there is none

Conv == INSTANCE Conversion
convVars == <<partial, cjournal, container, cpc, source, table, cursor, dirty>>
allVars  == <<vars, convVars, receipt, own, phase>>

ASSUME NoFileAssumption ==
  NoFile \notin [Chunks -> Contents] \cup Journals \cup Conv!Journals \cup Conv!Containers \cup Sources

InstallInit ==
  /\ Init /\ Conv!CInit
  /\ receipt = NoFile /\ own = TRUE /\ phase = "stopped"

Available(s) == IF s = Pinned THEN Published ELSE own

(* validate_trusted_receipt: container, graph and tokenizer are opened.    *)
Valid(r) ==
  /\ container # NoFile
  /\ container.source = r.source
  /\ r.source \in Complete
  /\ Available(r.tokenizer) /\ r.tokenizer = r.source

(* load_trusted_receipt                                                    *)
Trusted == receipt # NoFile /\ Valid(receipt)

-----------------------------------------------------------------------------
Exit == phase' = "stopped" /\ UNCHANGED <<receipt, own>>

(* start: a trusted receipt goes straight to the server, whatever model    *)
(* was asked for; otherwise the setup begins, if the user agrees.          *)
Start(s) ==
  /\ phase = "stopped" /\ UNCHANGED <<receipt, own>>
  /\ \/ Trusted /\ phase' = "load" /\ UNCHANGED <<vars, convVars>>
     \/ /\ ~Trusted /\ s = Pinned
        /\ phase' = "fetch" /\ Begin /\ UNCHANGED convVars
     \/ /\ ~Trusted /\ s # Pinned /\ own    \* fetch_local_in_place
        /\ phase' = "convert" /\ Conv!CBegin(s)
        /\ UNCHANGED vars

(* attempt_source_fetch                                                    *)
Fetch(A) ==
  /\ phase = "fetch" /\ pc # "idle"
  /\ A
  /\ UNCHANGED <<convVars, receipt, own, phase>>

FetchOver ==
  /\ phase = "fetch" /\ pc = "idle"
  /\ UNCHANGED vars
  /\ IF Published
     THEN Conv!CBegin(Pinned) /\ phase' = "convert" /\ UNCHANGED <<receipt, own>>
     ELSE Exit /\ UNCHANGED convVars

(* finish_install                                                          *)
Convert(A) ==
  /\ phase = "convert"
  /\ A
  /\ UNCHANGED <<disk, pc, locals, receipt, own, phase>>

ConvertOver ==
  /\ phase = "convert" /\ cpc \in {"done", "failed"}
  /\ cpc' = "idle"
  /\ source' = IF cpc = "done" THEN source ELSE NoFile
  /\ phase' = IF cpc = "done" THEN "validate" ELSE "stopped"
  /\ UNCHANGED <<vars, partial, cjournal, container, table, cursor, dirty, receipt, own>>

(* Mutant: any container that opens is vouched for.                        *)
WriteReceiptUnvalidated ==
  /\ phase = "validate"
  /\ receipt' = [source |-> container.source, tokenizer |-> source]
  /\ phase' = "load" /\ source' = NoFile
  /\ UNCHANGED <<vars, partial, cjournal, container, cpc, table, cursor, dirty, own>>

(* The graph is checked and the receipt written, atomically.               *)
WriteReceipt ==
  /\ phase = "validate"
  /\ LET r == [source |-> container.source, tokenizer |-> source]
     IN IF Valid(r) THEN receipt' = r /\ phase' = "load"
                    ELSE phase' = "stopped" /\ UNCHANGED receipt
  /\ source' = NoFile
  /\ UNCHANGED <<vars, partial, cjournal, container, cpc, table, cursor, dirty, own>>

(* The receipt is validated again and the runtime opened from it.          *)
Load ==
  /\ phase = "load"
  /\ phase' \in IF Trusted THEN {"serving", "stopped"} ELSE {"stopped"}
  /\ UNCHANGED <<vars, convVars, receipt, own>>

Stop == phase \in {"validate", "load", "serving"} /\ Exit /\ source' = NoFile
        /\ UNCHANGED <<vars, partial, cjournal, container, cpc, table, cursor, dirty>>

(* The user removes the files `--model` named, or brings them back.        *)
MoveFiles ==
  own' = ~own /\ UNCHANGED <<vars, convVars, receipt, phase>>

-----------------------------------------------------------------------------
InstallStep ==
  \/ Fetch(Step) \/ FetchOver \/ Convert(Conv!CStep) \/ ConvertOver \/ WriteReceipt \/ Load

InstallNext ==
  \/ \E s \in Sources : Start(s)
  \/ InstallStep
  \/ Fetch(CutBetweenSteps) \/ Fetch(CutWrite) \/ Fetch(CutAppend)
  \/ Convert(Conv!CCut)
  \/ Stop \/ MoveFiles

InstallSpec == InstallInit /\ [][InstallNext]_allVars

-----------------------------------------------------------------------------
(* The types of both parts and of the receipt.                             *)
InstallTypeOK ==
  /\ TypeOK /\ Conv!ConversionTypeOK
  /\ receipt = NoFile \/ receipt \in [source : Sources, tokenizer : Sources]
  /\ own \in BOOLEAN
  /\ phase \in {"stopped", "fetch", "convert", "validate", "load", "serving"}

(* See SourceFetch: what was published is the checkpoint, and what the     *)
(* journal of a download lists is on disk.                                 *)
DownloadIsSound == InstallTypeOK /\ PublishedIsVerified /\ JournalledIsOnDisk

(* See Conversion: an installed container is complete and of one source,   *)
(* what its journal lists is on disk, and a resumed conversion keeps to    *)
(* the source it began with.                                               *)
ConversionIsSound ==
  Conv!InstalledIsComplete /\ Conv!ConversionJournalIsOnDisk /\ Conv!ConversionsDoNotMix

(* serve.rs:99-102 "never a false installed state": from the moment a     *)
(* receipt exists there is a complete container of the source it names,    *)
(* with the runtime's graph, and the tokenizer's file is that source; so a *)
(* server runs only on such a container.                                   *)
ReceiptVouches ==
  /\ receipt # NoFile =>
       /\ container # NoFile /\ container.source = receipt.source
       /\ receipt.source \in Complete /\ receipt.tokenizer = receipt.source
  /\ phase = "serving" => receipt # NoFile

(* Why these hold: the parts keep to their own orders, no conversion runs  *)
(* outside the phase for it, and a container, once there, stays.           *)
InstallIInv ==
  /\ InstallTypeOK /\ FetchIInv /\ Conv!ConversionIInv /\ ReceiptVouches
  /\ phase # "convert" => cpc = "idle"

(* Every start ends: with a server or with an error.                       *)
StartEnds == phase # "stopped" ~> phase \in {"stopped", "serving"}
=============================================================================
