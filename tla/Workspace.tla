----------------------------- MODULE Workspace -----------------------------
(***************************************************************************)
(* The user's source directory: its import as a preserved snapshot, and    *)
(* the application of an accepted patch to it.                             *)
(*                                                                         *)
(* Nothing locks the directory.  A tree is read file by file while the     *)
(* user writes, so every identity that is computed may be a mixture of two *)
(* trees; importWorkspace and applyToSource read it twice.  A file's       *)
(* content covers its absence and its mode; the commit at HEAD is one more *)
(* path that no patch touches.  Every write of the user is a new content.  *)
(***************************************************************************)
EXTENDS Naturals

CONSTANTS
    Path,       \* files of the source
    Touched,    \* the files that the accepted patch changes
    MaxEdits,   \* bound: writes of the user
    MaxCrash    \* bound: ends of the process

ASSUME WorkspaceAssumption == Touched \subseteq Path /\ MaxEdits \in Nat /\ MaxCrash \in Nat

New     == MaxEdits + 1              \* what the patch leaves in a file
Content == 0 .. New
Tree    == [Path -> Content]
Partial == UNION {[S -> Content] : S \in SUBSET Path}
Nothing == [p \in {} |-> 0]

VARIABLES
    source,    \* the directory
    pc,        \* the step of the command, "off" or "bound" between commands
    seen,      \* the files that the present scan has read
    initial,   \* origin.initial: the identity that the snapshot was made from
    copy,      \* the preserved snapshot, as far as it is copied
    recorded,  \* the journal holds the source-application entry
    edits, crashes,
    past,      \* history: the trees of the source since the command began
    snapshot,  \* history: those of the import
    late,      \* history: files the user wrote while git applied the patch
    lost       \* history: files in which git overwrote a write of the user

vars == <<source, pc, seen, initial, copy, recorded, edits, crashes, past,
          snapshot, late, lost>>
history == <<past, snapshot, late, lost>>
-----------------------------------------------------------------------------
Goto(to) == pc' = to /\ seen' = Nothing

\* A command ends, or fails and leaves everything as it was.
Over == Goto(IF pc \in {"scan", "copy", "rescan"} THEN "off" ELSE "bound")

Unread == Path \ DOMAIN seen

\* The identities are equal.  SamePaths is a mutant: the hash covers the names
\* of the files only.
SamePaths(tree) == DOMAIN tree = DOMAIN initial
Same(tree) == tree = initial

\* treeIdentity, one file at a time and in any order.
Scan(p) ==
    /\ pc \in {"scan", "rescan", "first", "second"} /\ p \in Unread
    /\ seen' = [q \in DOMAIN seen \cup {p} |-> IF q = p THEN source[p] ELSE seen[q]]
    /\ UNCHANGED <<source, pc, initial, copy, recorded, edits, crashes, history>>

Scanned(step) == pc = step /\ Unread = {}
-----------------------------------------------------------------------------
(* importWorkspace: identity, copy, identity of the copy, identity again.  *)

Import ==
    /\ pc = "off" /\ Goto("scan")
    /\ past' = {source}
    /\ UNCHANGED <<source, initial, copy, recorded, edits, crashes, snapshot,
                   late, lost>>

ImportScanned ==
    /\ Scanned("scan") /\ Goto("copy")
    /\ initial' = seen /\ copy' = Nothing
    /\ UNCHANGED <<source, recorded, edits, crashes, history>>

Copy(p) ==
    /\ pc = "copy" /\ p \in Path \ DOMAIN copy
    /\ copy' = [q \in DOMAIN copy \cup {p} |-> IF q = p THEN source[p] ELSE copy[q]]
    /\ UNCHANGED <<source, pc, seen, initial, recorded, edits, crashes, history>>

CopyVerified ==
    /\ pc = "copy" /\ DOMAIN copy = Path
    /\ IF Same(copy) THEN Goto("rescan") ELSE Over
    /\ UNCHANGED <<source, initial, copy, recorded, edits, crashes, history>>

Imported ==
    /\ Scanned("rescan")
    /\ IF Same(seen)
       THEN Goto("bound") /\ snapshot' = past
       ELSE Over /\ UNCHANGED snapshot
    /\ UNCHANGED <<source, initial, copy, recorded, edits, crashes, past, late,
                   lost>>
-----------------------------------------------------------------------------
(* applyToSource: identity, git apply --check, identity again, git apply.  *)

\* FitsBlind is a mutant: git is made to write whatever is there.
FitsBlind == TRUE
Fits == \A p \in Touched : source[p] = initial[p]

Apply ==
    /\ pc = "bound" /\ Goto("first")
    /\ past' = {source}
    /\ UNCHANGED <<source, initial, copy, recorded, edits, crashes, snapshot,
                   late, lost>>

\* An empty patch is applied without a look at the source.
Unchanged ==
    /\ Scanned("first")
    /\ IF Same(seen) THEN Goto(IF Touched = {} THEN "record" ELSE "check") ELSE Over
    /\ UNCHANGED <<source, initial, copy, recorded, edits, crashes, history>>

Check ==
    /\ pc = "check"
    /\ IF Fits THEN Goto("second") ELSE Over
    /\ UNCHANGED <<source, initial, copy, recorded, edits, crashes, history>>

Preflight ==
    /\ Scanned("second")
    /\ IF Same(seen) THEN Goto("git") ELSE Over
    /\ UNCHANGED <<source, initial, copy, recorded, edits, crashes, history>>

\* git reads every file of the patch before it writes the first.
GitReads ==
    /\ pc = "git"
    /\ IF Fits THEN Goto("write") /\ late' = {} ELSE Over /\ UNCHANGED late
    /\ UNCHANGED <<source, initial, copy, recorded, edits, crashes, past,
                   snapshot, lost>>

GitWrites(p) ==
    /\ pc = "write" /\ p \in Touched /\ p \notin DOMAIN seen
    /\ seen' = [q \in DOMAIN seen \cup {p} |-> New]
    /\ lost' = IF source[p] = initial[p] THEN lost ELSE lost \cup {p}
    /\ source' = [source EXCEPT ![p] = New]
    /\ past' = past \cup {source'}
    /\ UNCHANGED <<pc, initial, copy, recorded, edits, crashes, snapshot, late>>

\* A full disk: git fails with some of its files written.
GitFails ==
    /\ pc = "write" /\ Over
    /\ UNCHANGED <<source, initial, copy, recorded, edits, crashes, history>>

\* WrittenSome is a mutant: the exit of git is not waited for.
WrittenSome == pc = "write"
Written == pc = "write" /\ DOMAIN seen = Touched

Applied ==
    /\ Written \/ pc = "record"
    /\ recorded' = TRUE /\ Over
    /\ UNCHANGED <<source, initial, copy, edits, crashes, history>>
-----------------------------------------------------------------------------
Edit(p) ==
    /\ edits < MaxEdits
    /\ edits' = edits + 1
    /\ source' = [source EXCEPT ![p] = edits']
    /\ past' = past \cup {source'}
    /\ late' = IF pc = "write" THEN late \cup {p} ELSE late
    /\ UNCHANGED <<pc, seen, initial, copy, recorded, crashes, snapshot, lost>>

Crash ==
    /\ pc \notin {"off", "bound"} /\ crashes < MaxCrash
    /\ crashes' = crashes + 1
    /\ Over
    /\ UNCHANGED <<source, initial, copy, recorded, edits, history>>

Init ==
    /\ source = [p \in Path |-> 0]
    /\ pc = "off" /\ seen = Nothing /\ initial = Nothing /\ copy = Nothing
    /\ recorded = FALSE /\ edits = 0 /\ crashes = 0
    /\ past = {} /\ snapshot = {} /\ late = {} /\ lost = {}

Next ==
    \/ \E p \in Path : Scan(p) \/ Copy(p) \/ GitWrites(p) \/ Edit(p)
    \/ Import \/ ImportScanned \/ CopyVerified \/ Imported
    \/ Apply \/ Unchanged \/ Check \/ Preflight \/ GitReads \/ GitFails \/ Applied
    \/ Crash

Spec == Init /\ [][Next]_vars
-----------------------------------------------------------------------------
Steps == {"off", "scan", "copy", "rescan", "bound", "first", "check", "second",
          "git", "write", "record"}
Bound == pc \notin {"off", "scan", "copy", "rescan"}

\* Every variable has its type; once bound, identity and snapshot are whole.
TypeOK ==
    /\ pc \in Steps
    /\ source \in Tree /\ seen \in Partial
    /\ Bound => initial \in Tree /\ copy \in Tree
    /\ recorded \in BOOLEAN
    /\ edits \in 0 .. MaxEdits /\ crashes \in 0 .. MaxCrash
    /\ late \subseteq Path /\ lost \subseteq Path

\* workspace.ts, importWorkspace: what is preserved is the source as it was at
\* one moment of the import, although it is read and copied file by file while
\* the user writes.
ImportIsSnapshot == Bound => copy = initial /\ initial \in snapshot

\* workspace.ts, applyToSource: when git starts to apply the patch, the source
\* was, at one moment since the command began, exactly what was imported.
AppliedOntoImported == pc \in {"git", "write"} => initial \in past

\* cli.ts asks the user to stop external writers during application: a write
\* from before git has begun is never overwritten, nor one to another file.
EditsKept == lost \subseteq late \cap Touched

\* The journal says that the patch was applied only when git has written every
\* file of it, also after crashes and failures in the middle of one.
RecordedIsApplied ==
    [][recorded' /\ ~recorded => \A p \in Touched : source[p] = New \/ p \in late]_vars
=============================================================================
