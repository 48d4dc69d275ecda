----------------------------- MODULE SemanticVault -----------------------------
(*****************************************************************************)
(* The project's Markdown vault of findings (knowledge_graph/semantic.py): a  *)
(* note per title, admitted through a staged transaction by any run, one      *)
(* writer at a time, and edited by humans without the lock. A note is         *)
(* abstracted to its title, what it records, its provenance marks and whether *)
(* a human edited it; the hash of a file is compared as the note itself.      *)
(*****************************************************************************)
EXTENDS Naturals, FiniteSets

CONSTANTS
    Absent, Raised,
    OtherTitles, \* titles another run may admit
    OtherTasks   \* titles of the tasks of other runs

VARIABLES
    vault,       \* the notes on disk
    txn,         \* the staged transaction: [note, staged], or Absent
    vpc,         \* where this run's vault operation is
    vret,        \* the title it returned, Raised, or Absent
    edits,       \* human edits of the vault so far
    foreign      \* admissions by another run so far

vaultVars == <<vault, txn, vpc, vret, edits, foreign>>

\* A title as asked for; a higher number is the qualifier that sets it apart.
Title(base) == [base |-> base, number |-> 0]

\* Provenance marks. Only the first two name a run: every task of every run has the
\* coordinator's, and every finding of every run the two of its task's title.
RunMark               == <<"run", "this">>
OtherMark             == <<"run", "other">>
CoordinatorMark       == <<"coordinator assignment", "">>
CompletedMark         == <<"worker completed assignment", "">>
ReportMark(title)     == <<"worker report", title>>
AssignmentMark(title) == <<"assignment", title>>
FindingMarks(title)   == {ReportMark(title), AssignmentMark(title)}

VaultInit ==
    /\ vault = {}
    /\ txn = Absent
    /\ vpc = "idle"
    /\ vret = Absent
    /\ edits = 0
    /\ foreign = 0

\* _recover_staged_admissions_unlocked, run whenever the lock is taken: a staged
\* file is moved into place; one that was moved must still be what was staged.
Unrecoverable == txn # Absent /\ ~txn.staged /\ txn.note \notin vault

Put(notes, note) == {other \in notes : other.title # note.title} \cup {note}

Recovered == IF txn # Absent /\ txn.staged THEN Put(vault, txn.note) ELSE vault

TakenIn(notes, title) == \E note \in notes : note.title = title

\* _disambiguated_title
FreeTitle(notes, base) ==
    LET free == {k \in 0..Cardinality(notes) : ~TakenIn(notes, [base |-> base, number |-> k])}
    IN  [base |-> base, number |-> CHOOSE k \in free : \A j \in free : k <= j]

VaultReturn(value) ==
    /\ vret' = value
    /\ UNCHANGED <<vpc, edits, foreign>>

\* The recovered vault is durable before the next transaction is staged.
Stage(note) ==
    /\ txn' = [note |-> note, staged |-> TRUE]
    /\ vpc' = "replace"
    /\ UNCHANGED <<vret, edits, foreign>>

\* Mutant of Prior: the title is not compared.
PriorOfRun(notes, base, marks) == {note \in notes : note.marks \cap marks # {}}

\* A note with the same title that shares a provenance mark with the admission.
Prior(notes, base, marks) ==
    {note \in notes : note.title = Title(base) /\ note.marks \cap marks # {}}

\* admit_finding
Admit(what, base, marks) ==
    /\ vpc = "idle" /\ vret = Absent
    /\ IF Unrecoverable
       THEN VaultReturn(Raised) /\ UNCHANGED <<vault, txn>>
       ELSE /\ vault' = Recovered
            /\ IF Prior(Recovered, base, marks) # {}
               THEN VaultReturn(Title(base)) /\ txn' = Absent
               ELSE Stage([title |-> FreeTitle(Recovered, base), what |-> what,
                           marks |-> marks, hand |-> FALSE])

\* update_status: the title must resolve.
UpdateStatus(title, marks) ==
    /\ vpc = "idle" /\ vret = Absent
    /\ IF Unrecoverable
       THEN VaultReturn(Raised) /\ UNCHANGED <<vault, txn>>
       ELSE /\ vault' = Recovered
            /\ IF ~TakenIn(Recovered, title)
               THEN VaultReturn(Raised) /\ txn' = Absent
               ELSE LET note == CHOOSE other \in Recovered : other.title = title
                    IN  Stage([note EXCEPT !.marks = @ \cup marks])

\* Mutant of Replace: the staged file is copied, not moved.
ReplaceByCopy ==
    /\ vpc = "replace"
    /\ vault' = Put(vault, txn.note)
    /\ vpc' = "clean"
    /\ UNCHANGED <<txn, vret, edits, foreign>>

\* os.replace: the staged file becomes the note.
Replace ==
    /\ vpc = "replace"
    /\ vault' = Put(vault, txn.note)
    /\ txn' = [txn EXCEPT !.staged = FALSE]
    /\ vpc' = "clean"
    /\ UNCHANGED <<vret, edits, foreign>>

\* rmtree: the transaction is forgotten.
Clean ==
    /\ vpc = "clean"
    /\ txn' = Absent
    /\ vpc' = "idle"
    /\ vret' = txn.note.title
    /\ UNCHANGED <<vault, edits, foreign>>

VaultStep == Replace \/ Clean

\* The process dies, or takes what a vault operation returned.
VaultForget == vpc' = "idle" /\ vret' = Absent

\* Another run admits a note of its problem, a task or a finding of its own while the
\* lock is free.
ForeignAdmit ==
    /\ vpc = "idle" /\ ~Unrecoverable
    /\ \E base \in OtherTitles,
          marks \in {{OtherMark}, {OtherMark, CoordinatorMark}}
                        \cup {{OtherMark} \cup FindingMarks(task) : task \in OtherTasks} :
        /\ Prior(Recovered, base, marks) = {}
        /\ vault' = Put(Recovered, [title |-> FreeTitle(Recovered, base), what |-> <<"other", foreign, 0>>,
                                    marks |-> marks, hand |-> FALSE])
    /\ txn' = Absent
    /\ foreign' = foreign + 1
    /\ UNCHANGED <<vpc, vret, edits>>

\* A human edits or deletes a note, at any time.
VaultHand ==
    /\ edits' = edits + 1
    /\ \E note \in vault :
        \/ vault' = Put(vault, [note EXCEPT !.hand = ~@])
        \/ vault' = vault \ {note}
    /\ UNCHANGED <<txn, vpc, vret, foreign>>

\* The notes, with titles over these bases.
Titles(bases)     == [base : bases, number : Nat]
Marks(bases)      == {RunMark, OtherMark, CoordinatorMark, CompletedMark}
                        \cup ({"worker report", "assignment"} \X Titles(bases))
VaultNotes(bases) == [title : Titles(bases), what : {"task", "finding", "other"} \X Nat \X Nat,
                      marks : SUBSET Marks(bases), hand : BOOLEAN]
Staged(bases)     == [note : VaultNotes(bases), staged : BOOLEAN]

VaultTypeOK(bases) ==
    /\ vault \subseteq VaultNotes(bases)
    /\ \A a, b \in vault : a.title = b.title => a = b
    /\ txn \in Staged(bases) \cup {Absent}
    /\ vret \in Titles(bases) \cup {Absent, Raised}
    /\ vpc \in {"idle", "replace", "clean"}
    /\ vpc = "idle" \/ (txn # Absent /\ txn.staged = (vpc = "replace"))
    /\ edits \in Nat /\ foreign \in Nat
===============================================================================
