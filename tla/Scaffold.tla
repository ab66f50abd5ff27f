------------------------------ MODULE Scaffold ------------------------------
(***************************************************************************)
(* bin/graphscale scaffold (grapple/scaffolding.py): the files that are    *)
(* the developer's once they exist, the generated files that are printed   *)
(* and overwritten on every run, and pents.py, to which a run appends the  *)
(* classes it does not find.  A run can be interrupted at any point, and   *)
(* the developer edits between runs.                                       *)
(*                                                                         *)
(* open(path, 'w') truncates and the text follows when the file closes: a  *)
(* file is "torn" in between.  The text appended to pents.py is one write. *)
(* Directories, made when they are missing, are left out.                  *)
(***************************************************************************)
EXTENDS Naturals, Sequences

CONSTANTS Documents,   \* the documents parse_grapple accepts
          Printable,   \* those the printers accept
          PentsOf,     \* document -> the names of its pents
          MaxEdits,    \* bound on the developer's edits
          MaxInterrupts  \* bound on interrupted runs

Classes == {"Root"} \cup UNION {PentsOf[d] : d \in Documents}

\* A pent named Root would be appended as Root and again as a pent.
ASSUME ScaffoldAssumption ==
  /\ Printable \subseteq Documents
  /\ PentsOf \in [Documents -> SUBSET Classes]
  /\ \A d \in Documents : "Root" \notin PentsOf[d]
  /\ MaxEdits \in Nat /\ MaxInterrupts \in Nat

\* In the order write_scaffold walks the tree.
scaffold_structure ==
  << "graphql_schema/__init__.py", "pent/__init__.py", "pent/pents.py", "kvetch/__init__.py",
     "kvetch/kvetch_schema.py", "config.py", "serve.py" >>
generated_files_scaffold ==
  << "graphql_schema/generated.py", "pent/autopents.py", "pent/generated.py",
     "kvetch/generated.py" >>

Scaffolded == {scaffold_structure[i] : i \in 1..7}
Generated == {"graphql_schema/generated.py", "pent/autopents.py", "pent/generated.py",
              "kvetch/generated.py"}

VARIABLES document,   \* the .graphql file
          files,      \* path -> "absent", "torn", "template", "edited" or a document
          copies,     \* class name -> how often pents.py defines it
          hand,       \* the classes of pents.py with work of the developer
          pc,         \* where the run is, or how the last one ended
          next,       \* index of the next file of the tree being written
          missing,    \* the pents the run did not find in the text it read
          torn,       \* history: scaffolded files an interrupted run left torn
          cut,        \* history: a run was cut while it overwrote generated files
          edits,      \* counter, up to MaxEdits
          interrupts  \* counter, up to MaxInterrupts

vars == <<document, files, copies, hand, pc, next, missing, torn, cut, edits, interrupts>>

Resting == {"idle", "finished", "failed", "interrupted"}

Init ==
  /\ document \in Documents
  /\ files = [p \in Scaffolded \cup Generated |-> "absent"]
  /\ copies = [c \in Classes |-> 0] /\ hand = {}
  /\ pc = "idle" /\ next = 1 /\ missing = {}
  /\ torn = {} /\ cut = FALSE /\ edits = 0 /\ interrupts = 0

----------------------------------------------------------------------------
(* A run: rescaffold_graphql *)

\* The text is read and parsed before anything is written.
Start ==
  /\ pc \in Resting
  /\ pc' = "scaffold"
  /\ UNCHANGED <<document, files, copies, hand, next, missing, torn, cut, edits, interrupts>>

\* create_scaffolding: write_if_new_file
\* A mutant: a skipped file takes the next one with it.
SkipTwo ==
  /\ pc = "scaffold" /\ next <= 7
  /\ files[scaffold_structure[next]] # "absent"
  /\ next' = next + 2
  /\ UNCHANGED <<document, files, copies, hand, pc, missing, torn, cut, edits, interrupts>>

SkipExisting ==
  /\ pc = "scaffold" /\ next <= 7
  /\ files[scaffold_structure[next]] # "absent"
  /\ next' = next + 1
  /\ UNCHANGED <<document, files, copies, hand, pc, missing, torn, cut, edits, interrupts>>

\* A mutant: write_file for write_if_new_file.
OpenAnyway ==
  /\ pc = "scaffold" /\ next <= 7
  /\ files' = [files EXCEPT ![scaffold_structure[next]] = "torn"]
  /\ pc' = "scaffold_write"
  /\ UNCHANGED <<document, copies, hand, next, missing, torn, cut, edits, interrupts>>

OpenNew ==
  /\ pc = "scaffold" /\ next <= 7
  /\ files[scaffold_structure[next]] = "absent"
  /\ files' = [files EXCEPT ![scaffold_structure[next]] = "torn"]
  /\ pc' = "scaffold_write"
  /\ UNCHANGED <<document, copies, hand, next, missing, torn, cut, edits, interrupts>>

WriteNew ==
  /\ pc = "scaffold_write"
  /\ files' = [files EXCEPT ![scaffold_structure[next]] = "template"]
  /\ pc' = "scaffold" /\ next' = next + 1
  /\ UNCHANGED <<document, copies, hand, missing, torn, cut, edits, interrupts>>

\* A mutant: the first file is written before the later ones are printed.
PrintFirst ==
  /\ pc = "scaffold" /\ next = 8
  /\ IF document \in Printable
     THEN pc' = "generate" /\ UNCHANGED files
     ELSE pc' = "failed" /\ files' = [files EXCEPT !["graphql_schema/generated.py"] = document]
  /\ next' = 1
  /\ UNCHANGED <<document, copies, hand, missing, torn, cut, edits, interrupts>>

\* overwrite_generated_files: the printers run, and may raise, before the
\* first file is opened.
PrintAll ==
  /\ pc = "scaffold" /\ next = 8
  /\ IF document \in Printable THEN pc' = "generate" ELSE pc' = "failed"
  /\ next' = 1
  /\ UNCHANGED <<document, files, copies, hand, missing, torn, cut, edits, interrupts>>

OpenGenerated ==
  /\ pc = "generate" /\ next <= 4
  /\ files' = [files EXCEPT ![generated_files_scaffold[next]] = "torn"]
  /\ pc' = "generate_write"
  /\ UNCHANGED <<document, copies, hand, next, missing, torn, cut, edits, interrupts>>

WriteGenerated ==
  /\ pc = "generate_write"
  /\ files' = [files EXCEPT ![generated_files_scaffold[next]] = document]
  /\ pc' = "generate" /\ next' = next + 1
  /\ UNCHANGED <<document, copies, hand, missing, torn, cut, edits, interrupts>>

\* append_to_pents_file: what is missing is decided once, by the text as read.
\* A mutant: the classes the developer has not touched are appended again.
mixins_without_work(types) == types \ hand

mixins_not_in_file(types) == {name \in types : copies[name] = 0}

\* A mutant: Root is taken to be there.
ReadPentsOnly ==
  /\ pc = "generate" /\ next = 5
  /\ missing' = mixins_not_in_file(PentsOf[document])
  /\ pc' = "append"
  /\ UNCHANGED <<document, files, copies, hand, next, torn, cut, edits, interrupts>>

ReadPents ==
  /\ pc = "generate" /\ next = 5
  /\ missing' = mixins_not_in_file(PentsOf[document] \cup {"Root"})
  /\ pc' = "append"
  /\ UNCHANGED <<document, files, copies, hand, next, torn, cut, edits, interrupts>>

\* Root first, then the pents in the document's order, on which nothing depends.
AppendClass ==
  /\ pc = "append"
  /\ \E name \in missing :
       /\ "Root" \in missing => name = "Root"
       /\ copies' = [copies EXCEPT ![name] = @ + 1]
       /\ missing' = missing \ {name}
  /\ UNCHANGED <<document, files, hand, pc, next, torn, cut, edits, interrupts>>

Finish ==
  /\ pc = "append" /\ missing = {}
  /\ pc' = "finished" /\ cut' = FALSE /\ next' = 1
  /\ UNCHANGED <<document, files, copies, hand, missing, torn, edits, interrupts>>

\* The process is killed, or a write fails.
Interrupt ==
  /\ pc \notin Resting
  /\ interrupts < MaxInterrupts /\ interrupts' = interrupts + 1
  /\ pc' = "interrupted" /\ missing' = {} /\ next' = 1
  /\ torn' = IF pc = "scaffold_write" THEN torn \cup {scaffold_structure[next]} ELSE torn
  /\ cut' = (cut \/ pc \in {"generate", "generate_write"})
  /\ UNCHANGED <<document, files, copies, hand, edits>>

Run == \/ SkipExisting \/ OpenNew \/ WriteNew \/ PrintAll \/ OpenGenerated \/ WriteGenerated
       \/ ReadPents \/ AppendClass \/ Finish

----------------------------------------------------------------------------
(* The developer, between runs *)

Edit ==
  /\ pc \in Resting /\ pc' = "idle"
  /\ edits < MaxEdits /\ edits' = edits + 1
  /\ UNCHANGED <<next, missing, cut, interrupts>>

ChangeDocument ==
  /\ Edit
  /\ \E d \in Documents \ {document} : document' = d
  /\ UNCHANGED <<files, copies, hand, torn>>

EditFile ==
  /\ Edit
  /\ \E p \in Scaffolded :
       /\ files[p] # "absent"
       /\ files' = [files EXCEPT ![p] = "edited"]
       /\ torn' = torn \ {p}
  /\ UNCHANGED <<document, copies, hand>>

DeleteFile ==
  /\ Edit
  /\ \E p \in Scaffolded :
       /\ files[p] # "absent"
       /\ files' = [files EXCEPT ![p] = "absent"]
       /\ torn' = torn \ {p}
       /\ IF p = "pent/pents.py"
          THEN copies' = [c \in Classes |-> 0] /\ hand' = {}
          ELSE UNCHANGED <<copies, hand>>
  /\ UNCHANGED document

WriteClass ==
  /\ Edit
  /\ files["pent/pents.py"] # "absent"
  /\ \E c \in Classes \ hand :
       /\ copies' = [copies EXCEPT ![c] = 1]
       /\ hand' = hand \cup {c}
  /\ UNCHANGED <<document, files, torn>>

RemoveClass ==
  /\ Edit
  /\ \E c \in Classes :
       /\ copies[c] > 0
       /\ copies' = [copies EXCEPT ![c] = 0]
       /\ hand' = hand \ {c}
  /\ UNCHANGED <<document, files, torn>>

Developer == ChangeDocument \/ EditFile \/ DeleteFile \/ WriteClass \/ RemoveClass

Next == Start \/ Run \/ Interrupt \/ Developer

Spec == Init /\ [][Next]_vars

----------------------------------------------------------------------------
(* Properties *)

ScaffoldTypeOK ==
  /\ document \in Documents
  /\ files \in [Scaffolded \cup Generated -> {"absent", "torn", "template", "edited"} \cup Documents]
  /\ copies \in [Classes -> Nat] /\ hand \in SUBSET Classes
  /\ pc \in Resting \cup {"scaffold", "scaffold_write", "generate", "generate_write", "append"}
  /\ next \in 1..8 /\ missing \in SUBSET Classes
  /\ torn \in SUBSET Scaffolded /\ cut \in BOOLEAN /\ edits \in 0..MaxEdits
  /\ interrupts \in 0..MaxInterrupts

\* No class is defined twice in pents.py, however often runs are interrupted
\* between their appends and started again: Python would keep the empty one
\* that was appended last and drop the developer's.
NoClassTwice == \A c \in Classes : copies[c] <= 1

\* A run, and a run that is interrupted, leaves the developer's files and
\* classes as they are.
HandWorkKept ==
  [][~Developer =>
       /\ \A p \in Scaffolded : files[p] = "edited" => files'[p] = "edited"
       /\ hand' = hand /\ \A c \in hand : copies'[c] = copies[c]]_vars

\* A run that ends leaves the generated files of its document and a class for
\* Root and every pent, whatever interrupted runs and edits left before it.
\* The one thing a later run does not mend is a scaffolded file cut between
\* open and write, which exists and is passed over.
FinishedMatches ==
  pc = "finished" =>
    /\ \A p \in Generated : files[p] = document
    /\ \A c \in PentsOf[document] \cup {"Root"} : copies[c] >= 1
    /\ \A p \in Scaffolded : p \in torn \/ files[p] \in {"template", "edited"}

\* Between runs the generated files are of one document, unless a run was cut
\* while it overwrote them and none has finished since: a printer that raises
\* leaves the former files, all of them.
GeneratedTogether ==
  pc \in Resting /\ ~cut => \A p, q \in Generated : files[p] = files[q]
=============================================================================
