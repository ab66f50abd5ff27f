--------------------------- MODULE ScaffoldProofs ---------------------------
(***************************************************************************)
(* What Scaffold's run shows for three documents, proved for any documents *)
(* and any number of edits and interrupted runs.                           *)
(***************************************************************************)
EXTENDS Scaffold, TLAPS

Writing == {"scaffold", "scaffold_write"}

\* pents.py: only classes that are not there are waiting to be appended, and
\* the developer's classes are there.
PentsInv ==
  /\ \A c \in missing : copies[c] = 0
  /\ \A c \in hand : copies[c] > 0
  /\ pc # "append" => missing = {}
  /\ pc = "append" => \A c \in PentsOf[document] \cup {"Root"} : copies[c] >= 1 \/ c \in missing

Mended(p) == p \in torn \/ files[p] \in {"template", "edited"}

\* The scaffolded files: one that exists is whole, torn by an interrupted run,
\* or the one being written; the tree is walked in order.
TreeInv ==
  /\ \A p \in Scaffolded : \/ files[p] = "absent" \/ Mended(p)
                           \/ pc = "scaffold_write" /\ p = scaffold_structure[next]
  /\ pc \in Writing => \A i \in 1..7 : i < next => Mended(scaffold_structure[i])
  /\ pc = "scaffold_write" => next <= 7 /\ files[scaffold_structure[next]] = "torn"
  /\ pc \in Resting => next = 1
  /\ pc \in {"generate", "generate_write", "append", "finished"} =>
       \A p \in Scaffolded : Mended(p)

\* The generated files: those before the one being written are of the document.
GeneratedInv ==
  /\ pc \in {"generate", "generate_write"} =>
       \A i \in 1..4 : i < next => files[generated_files_scaffold[i]] = document
  /\ pc \in {"generate", "generate_write"} => next <= 5
  /\ pc = "generate_write" => next <= 4
  /\ pc \in {"append", "finished"} => \A p \in Generated : files[p] = document
  /\ pc \in Resting \cup Writing /\ ~cut => \A p, q \in Generated : files[p] = files[q]
  /\ pc = "finished" => \A c \in PentsOf[document] \cup {"Root"} : copies[c] >= 1

ScaffoldInv ==
  ScaffoldTypeOK /\ NoClassTwice /\ PentsInv /\ TreeInv /\ GeneratedInv

----------------------------------------------------------------------------
(* The two trees *)

\* scaffold_structure names the scaffolded files, all of them.
LEMMA ScaffoldTree ==
  /\ \A i \in 1..7 : scaffold_structure[i] \in Scaffolded
  /\ \A p \in Scaffolded : \E i \in 1..7 : p = scaffold_structure[i]
BY DEF Scaffolded

\* generated_files_scaffold names the generated files, all of them, and each
\* once.
LEMMA GeneratedTree ==
  /\ \A i \in 1..4 : generated_files_scaffold[i] \in Generated
  /\ \A p \in Generated : \E i \in 1..4 : p = generated_files_scaffold[i]
  /\ \A i, j \in 1..4 : generated_files_scaffold[i] = generated_files_scaffold[j] => i = j
<1>1. /\ generated_files_scaffold[1] = "graphql_schema/generated.py"
      /\ generated_files_scaffold[2] = "pent/autopents.py"
      /\ generated_files_scaffold[3] = "pent/generated.py"
      /\ generated_files_scaffold[4] = "kvetch/generated.py"
  BY DEF generated_files_scaffold
<1>2. \A i \in 1..4 : i = 1 \/ i = 2 \/ i = 3 \/ i = 4
  OBVIOUS
<1> QED BY <1>1, <1>2 DEF Generated

\* No file is both the developer's and generated.
LEMMA TreesApart == Scaffolded \cap Generated = {}
<1>1. /\ scaffold_structure[1] = "graphql_schema/__init__.py"
      /\ scaffold_structure[2] = "pent/__init__.py"
      /\ scaffold_structure[3] = "pent/pents.py"
      /\ scaffold_structure[4] = "kvetch/__init__.py"
      /\ scaffold_structure[5] = "kvetch/kvetch_schema.py"
      /\ scaffold_structure[6] = "config.py"
      /\ scaffold_structure[7] = "serve.py"
  BY DEF scaffold_structure
<1>2. \A i \in 1..7 : i = 1 \/ i = 2 \/ i = 3 \/ i = 4 \/ i = 5 \/ i = 6 \/ i = 7
  OBVIOUS
<1>3. \A i \in 1..7 : scaffold_structure[i] \notin Generated
  BY <1>1, <1>2 DEF Generated
<1> QED BY <1>3, ScaffoldTree

\* Classes holds Root and the pents of every document.
LEMMA PentsAreClasses == \A d \in Documents : PentsOf[d] \cup {"Root"} \subseteq Classes
BY ScaffoldAssumption DEF Classes

----------------------------------------------------------------------------
(* The inductive invariant *)

\* A project that has no files yet.
LEMMA InitInv == Init => ScaffoldInv
<1> SUFFICES ASSUME Init PROVE ScaffoldInv
  OBVIOUS
<1> USE DEF Resting, Writing
<1>1. ScaffoldTypeOK
  <2>1. cut \in BOOLEAN
    BY DEF Init
  <2>2. edits \in 0..MaxEdits /\ interrupts \in 0..MaxInterrupts
    BY ScaffoldAssumption DEF Init
  <2>3. files \in [Scaffolded \cup Generated ->
                   {"absent", "torn", "template", "edited"} \cup Documents]
    BY DEF Init
  <2> QED BY <2>1, <2>2, <2>3 DEF Init, ScaffoldTypeOK
<1>2. NoClassTwice /\ PentsInv
  BY DEF Init, NoClassTwice, PentsInv
<1>3. TreeInv /\ GeneratedInv
  BY DEF Init, TreeInv, GeneratedInv, Mended
<1> QED BY <1>1, <1>2, <1>3 DEF ScaffoldInv

\* Every step of a run, an interruption and every edit keep the invariant.
LEMMA NextInv == ScaffoldInv /\ [Next]_vars => ScaffoldInv'
<1> SUFFICES ASSUME ScaffoldInv, [Next]_vars PROVE ScaffoldInv'
  OBVIOUS
<1> USE DEF ScaffoldInv, Resting, Writing
<1>1. CASE Start
  <2>1. ScaffoldTypeOK'
    BY <1>1 DEF ScaffoldTypeOK, Start
  <2>2. NoClassTwice' /\ PentsInv'
    BY <1>1 DEF ScaffoldTypeOK, NoClassTwice, PentsInv, Start
  <2>3. TreeInv'
    BY <1>1 DEF ScaffoldTypeOK, TreeInv, Mended, Start
  <2>4. GeneratedInv'
    BY <1>1 DEF ScaffoldTypeOK, GeneratedInv, Start
  <2> QED BY <2>1, <2>2, <2>3, <2>4
<1>2. CASE SkipExisting
  <2>1. ScaffoldTypeOK'
    BY <1>2 DEF ScaffoldTypeOK, SkipExisting
  <2>2. NoClassTwice' /\ PentsInv'
    BY <1>2 DEF ScaffoldTypeOK, NoClassTwice, PentsInv, SkipExisting
  <2>3. TreeInv'
    BY <1>2, ScaffoldTree DEF ScaffoldTypeOK, TreeInv, Mended, SkipExisting
  <2>4. GeneratedInv'
    BY <1>2 DEF ScaffoldTypeOK, GeneratedInv, SkipExisting
  <2> QED BY <2>1, <2>2, <2>3, <2>4
<1>3. CASE OpenNew
  <2>1. ScaffoldTypeOK'
    BY <1>3 DEF ScaffoldTypeOK, OpenNew
  <2>2. NoClassTwice' /\ PentsInv'
    BY <1>3 DEF ScaffoldTypeOK, NoClassTwice, PentsInv, OpenNew
  <2>3. TreeInv'
    BY <1>3, ScaffoldTree DEF ScaffoldTypeOK, TreeInv, Mended, OpenNew
  <2>4. GeneratedInv'
    BY <1>3, ScaffoldTree, TreesApart DEF ScaffoldTypeOK, GeneratedInv, OpenNew
  <2> QED BY <2>1, <2>2, <2>3, <2>4
<1>4. CASE WriteNew
  <2>1. ScaffoldTypeOK'
    BY <1>4, ScaffoldTree DEF ScaffoldTypeOK, TreeInv, WriteNew
  <2>2. NoClassTwice' /\ PentsInv'
    BY <1>4 DEF ScaffoldTypeOK, NoClassTwice, PentsInv, WriteNew
  <2>3. TreeInv'
    BY <1>4, ScaffoldTree DEF ScaffoldTypeOK, TreeInv, Mended, WriteNew
  <2>4. GeneratedInv'
    BY <1>4, ScaffoldTree, TreesApart DEF ScaffoldTypeOK, TreeInv, GeneratedInv, WriteNew
  <2> QED BY <2>1, <2>2, <2>3, <2>4
<1>5. CASE PrintAll
  <2>1. ScaffoldTypeOK'
    BY <1>5 DEF ScaffoldTypeOK, PrintAll
  <2>2. NoClassTwice' /\ PentsInv'
    BY <1>5 DEF ScaffoldTypeOK, NoClassTwice, PentsInv, PrintAll
  <2>3. TreeInv'
    BY <1>5, ScaffoldTree DEF ScaffoldTypeOK, TreeInv, Mended, PrintAll
  <2>4. GeneratedInv'
    BY <1>5 DEF ScaffoldTypeOK, GeneratedInv, PrintAll
  <2> QED BY <2>1, <2>2, <2>3, <2>4
<1>6. CASE OpenGenerated
  <2>1. ScaffoldTypeOK'
    BY <1>6 DEF ScaffoldTypeOK, OpenGenerated
  <2>2. NoClassTwice' /\ PentsInv'
    BY <1>6 DEF ScaffoldTypeOK, NoClassTwice, PentsInv, OpenGenerated
  <2>3. TreeInv'
    BY <1>6, GeneratedTree, TreesApart DEF ScaffoldTypeOK, TreeInv, Mended, OpenGenerated
  <2>4. GeneratedInv'
    BY <1>6, GeneratedTree DEF ScaffoldTypeOK, GeneratedInv, OpenGenerated
  <2> QED BY <2>1, <2>2, <2>3, <2>4
<1>7. CASE WriteGenerated
  <2>1. ScaffoldTypeOK'
    BY <1>7, GeneratedTree DEF ScaffoldTypeOK, GeneratedInv, WriteGenerated
  <2>2. NoClassTwice' /\ PentsInv'
    BY <1>7 DEF ScaffoldTypeOK, NoClassTwice, PentsInv, WriteGenerated
  <2>3. TreeInv'
    BY <1>7, GeneratedTree, TreesApart
    DEF ScaffoldTypeOK, TreeInv, GeneratedInv, Mended, WriteGenerated
  <2>4. GeneratedInv'
    BY <1>7, GeneratedTree DEF ScaffoldTypeOK, GeneratedInv, WriteGenerated
  <2> QED BY <2>1, <2>2, <2>3, <2>4
<1>8. CASE ReadPents
  <2>1. ScaffoldTypeOK'
    BY <1>8, PentsAreClasses DEF ScaffoldTypeOK, ReadPents, mixins_not_in_file
  <2>2. NoClassTwice' /\ PentsInv'
    BY <1>8, PentsAreClasses
    DEF ScaffoldTypeOK, NoClassTwice, PentsInv, ReadPents, mixins_not_in_file
  <2>3. TreeInv'
    BY <1>8 DEF ScaffoldTypeOK, TreeInv, Mended, ReadPents
  <2>4. GeneratedInv'
    BY <1>8, GeneratedTree DEF ScaffoldTypeOK, GeneratedInv, ReadPents
  <2> QED BY <2>1, <2>2, <2>3, <2>4
<1>9. CASE AppendClass
  <2>1. ScaffoldTypeOK'
    BY <1>9 DEF ScaffoldTypeOK, AppendClass
  <2>2. NoClassTwice' /\ PentsInv'
    BY <1>9 DEF ScaffoldTypeOK, NoClassTwice, PentsInv, AppendClass
  <2>3. TreeInv'
    BY <1>9 DEF ScaffoldTypeOK, TreeInv, Mended, AppendClass
  <2>4. GeneratedInv'
    BY <1>9 DEF ScaffoldTypeOK, GeneratedInv, AppendClass
  <2> QED BY <2>1, <2>2, <2>3, <2>4
<1>10. CASE Finish
  <2>1. ScaffoldTypeOK'
    <3>1. cut' \in BOOLEAN
      BY <1>10 DEF Finish
    <3>2. torn' \in SUBSET Scaffolded
      BY <1>10, ScaffoldTree DEF ScaffoldTypeOK, TreeInv, Finish
    <3>3. next' \in 1..8 /\ missing' \in SUBSET Classes /\ interrupts' \in 0..MaxInterrupts
      BY <1>10, ScaffoldAssumption DEF ScaffoldTypeOK, Finish
    <3> QED BY <1>10, <3>1, <3>2, <3>3 DEF ScaffoldTypeOK, Finish
  <2>2. NoClassTwice' /\ PentsInv'
    BY <1>10 DEF ScaffoldTypeOK, NoClassTwice, PentsInv, Finish
  <2>3. TreeInv'
    BY <1>10 DEF ScaffoldTypeOK, TreeInv, Mended, Finish
  <2>4. GeneratedInv'
    BY <1>10 DEF ScaffoldTypeOK, GeneratedInv, PentsInv, Finish
  <2> QED BY <2>1, <2>2, <2>3, <2>4
<1>11. CASE Interrupt
  <2>1. ScaffoldTypeOK'
    <3>1. cut' \in BOOLEAN
      BY <1>11 DEF Interrupt
    <3>2. torn' \in SUBSET Scaffolded
      BY <1>11, ScaffoldTree DEF ScaffoldTypeOK, TreeInv, Interrupt
    <3>3. next' \in 1..8 /\ missing' \in SUBSET Classes /\ interrupts' \in 0..MaxInterrupts
      BY <1>11, ScaffoldAssumption DEF ScaffoldTypeOK, Interrupt
    <3> QED BY <1>11, <3>1, <3>2, <3>3 DEF ScaffoldTypeOK, Interrupt
  <2>2. NoClassTwice' /\ PentsInv'
    BY <1>11 DEF ScaffoldTypeOK, NoClassTwice, PentsInv, Interrupt
  <2>3. TreeInv'
    BY <1>11 DEF ScaffoldTypeOK, TreeInv, Mended, Interrupt
  <2>4. GeneratedInv'
    BY <1>11 DEF ScaffoldTypeOK, GeneratedInv, Interrupt
  <2> QED BY <2>1, <2>2, <2>3, <2>4
<1>12. CASE ChangeDocument
  <2>1. ScaffoldTypeOK'
    BY <1>12, ScaffoldAssumption DEF ScaffoldTypeOK, ChangeDocument, Edit
  <2>2. NoClassTwice' /\ PentsInv'
    BY <1>12 DEF ScaffoldTypeOK, NoClassTwice, PentsInv, ChangeDocument, Edit
  <2>3. TreeInv'
    BY <1>12 DEF ScaffoldTypeOK, TreeInv, Mended, ChangeDocument, Edit
  <2>4. GeneratedInv'
    BY <1>12 DEF ScaffoldTypeOK, GeneratedInv, ChangeDocument, Edit
  <2> QED BY <2>1, <2>2, <2>3, <2>4
<1>13. CASE EditFile
  <2>1. ScaffoldTypeOK'
    BY <1>13, ScaffoldAssumption DEF ScaffoldTypeOK, EditFile, Edit
  <2>2. NoClassTwice' /\ PentsInv'
    BY <1>13 DEF ScaffoldTypeOK, NoClassTwice, PentsInv, EditFile, Edit
  <2>3. TreeInv'
    BY <1>13 DEF ScaffoldTypeOK, TreeInv, Mended, EditFile, Edit
  <2>4. GeneratedInv'
    BY <1>13, TreesApart DEF ScaffoldTypeOK, GeneratedInv, EditFile, Edit
  <2> QED BY <2>1, <2>2, <2>3, <2>4
<1>14. CASE DeleteFile
  <2>1. ScaffoldTypeOK'
    BY <1>14, ScaffoldAssumption DEF ScaffoldTypeOK, DeleteFile, Edit
  <2>2. NoClassTwice' /\ PentsInv'
    BY <1>14 DEF ScaffoldTypeOK, NoClassTwice, PentsInv, DeleteFile, Edit
  <2>3. TreeInv'
    BY <1>14 DEF ScaffoldTypeOK, TreeInv, Mended, DeleteFile, Edit
  <2>4. GeneratedInv'
    BY <1>14, TreesApart DEF ScaffoldTypeOK, GeneratedInv, DeleteFile, Edit
  <2> QED BY <2>1, <2>2, <2>3, <2>4
<1>15. CASE WriteClass
  <2>1. ScaffoldTypeOK'
    BY <1>15, ScaffoldAssumption DEF ScaffoldTypeOK, WriteClass, Edit
  <2>2. NoClassTwice' /\ PentsInv'
    BY <1>15 DEF ScaffoldTypeOK, NoClassTwice, PentsInv, WriteClass, Edit
  <2>3. TreeInv'
    BY <1>15 DEF ScaffoldTypeOK, TreeInv, Mended, WriteClass, Edit
  <2>4. GeneratedInv'
    BY <1>15 DEF ScaffoldTypeOK, GeneratedInv, WriteClass, Edit
  <2> QED BY <2>1, <2>2, <2>3, <2>4
<1>16. CASE RemoveClass
  <2>1. ScaffoldTypeOK'
    BY <1>16, ScaffoldAssumption DEF ScaffoldTypeOK, RemoveClass, Edit
  <2>2. NoClassTwice' /\ PentsInv'
    BY <1>16 DEF ScaffoldTypeOK, NoClassTwice, PentsInv, RemoveClass, Edit
  <2>3. TreeInv'
    BY <1>16 DEF ScaffoldTypeOK, TreeInv, Mended, RemoveClass, Edit
  <2>4. GeneratedInv'
    BY <1>16 DEF ScaffoldTypeOK, GeneratedInv, RemoveClass, Edit
  <2> QED BY <2>1, <2>2, <2>3, <2>4
<1>17. CASE UNCHANGED vars
  BY <1>17 DEF vars, ScaffoldTypeOK, NoClassTwice, PentsInv, TreeInv, GeneratedInv, Mended
<1> QED BY <1>1, <1>2, <1>3, <1>4, <1>5, <1>6, <1>7, <1>8, <1>9, <1>10, <1>11, <1>12, <1>13, <1>14, <1>15, <1>16, <1>17 DEF Next, Run, Developer

\* Every reachable state has the invariant.
THEOREM Invariant == Spec => []ScaffoldInv
<1>1. Init => ScaffoldInv
  BY InitInv
<1>2. ScaffoldInv /\ [Next]_vars => ScaffoldInv'
  BY NextInv
<1> QED BY <1>1, <1>2, PTL DEF Spec

----------------------------------------------------------------------------
(* What follows from it *)

\* ScaffoldTypeOK in every reachable state.
THEOREM TypeCorrect == Spec => []ScaffoldTypeOK
<1>1. ScaffoldInv => ScaffoldTypeOK
  BY DEF ScaffoldInv
<1> QED BY Invariant, <1>1, PTL

\* No number of runs, interruptions and edits leaves a class twice in pents.py
\* (append_to_pents_file): what is missing is missing until it is appended.
THEOREM ClassesOnce == Spec => []NoClassTwice
<1>1. ScaffoldInv => NoClassTwice
  BY DEF ScaffoldInv
<1> QED BY Invariant, <1>1, PTL

\* A run that ends has overwritten every generated file from its document, and
\* left a class for Root and every pent (rescaffold_graphql).
THEOREM RunsComplete == Spec => []FinishedMatches
<1>1. ScaffoldInv => FinishedMatches
  <2> SUFFICES ASSUME ScaffoldInv, pc = "finished" PROVE FinishedMatches
    BY DEF FinishedMatches
  <2>1. \A p \in Scaffolded : p \in torn \/ files[p] \in {"template", "edited"}
    BY DEF ScaffoldInv, TreeInv, Mended
  <2>2. /\ \A p \in Generated : files[p] = document
        /\ \A c \in PentsOf[document] \cup {"Root"} : copies[c] >= 1
    BY DEF ScaffoldInv, GeneratedInv
  <2> QED BY <2>1, <2>2 DEF FinishedMatches
<1> QED BY Invariant, <1>1, PTL

\* A document no printer accepts leaves the generated files of the former one
\* (overwrite_generated_files prints everything first).
THEOREM GeneratedFilesAgree == Spec => []GeneratedTogether
<1>1. ScaffoldInv => GeneratedTogether
  BY DEF ScaffoldInv, GeneratedInv, GeneratedTogether
<1> QED BY Invariant, <1>1, PTL

\* No step of a run, and no interruption, touches what the developer wrote:
\* write_if_new_file passes over every file that exists, and no class of the
\* developer's is missing from the text.
THEOREM DeveloperKeeps == Spec => HandWorkKept
<1> DEFINE Kept == /\ \A p \in Scaffolded : files[p] = "edited" => files'[p] = "edited"
                   /\ hand' = hand /\ \A c \in hand : copies'[c] = copies[c]
<1>1. ScaffoldInv /\ [Next]_vars => [~Developer => Kept]_vars
  <2> SUFFICES ASSUME ScaffoldInv, Next, ~Developer PROVE Kept
    OBVIOUS
  <2>1. CASE Start \/ SkipExisting \/ PrintAll \/ ReadPents \/ Finish \/ Interrupt
    BY <2>1 DEF Start, SkipExisting, PrintAll, ReadPents, Finish, Interrupt
  <2>2. CASE OpenNew
    BY <2>2, ScaffoldTree DEF OpenNew, ScaffoldInv, ScaffoldTypeOK
  <2>3. CASE WriteNew
    BY <2>3, ScaffoldTree DEF WriteNew, ScaffoldInv, ScaffoldTypeOK, TreeInv
  <2>4. CASE OpenGenerated \/ WriteGenerated
    BY <2>4, GeneratedTree, TreesApart
    DEF OpenGenerated, WriteGenerated, ScaffoldInv, ScaffoldTypeOK, GeneratedInv
  <2>5. CASE AppendClass
    BY <2>5 DEF AppendClass, ScaffoldInv, ScaffoldTypeOK, PentsInv
  <2> QED BY <2>1, <2>2, <2>3, <2>4, <2>5 DEF Next, Run
<1>2. Spec => []ScaffoldInv
  BY Invariant
<1>3. Spec => [][Next]_vars
  BY PTL DEF Spec
<1> QED BY <1>1, <1>2, <1>3, PTL DEF HandWorkKept
=============================================================================
