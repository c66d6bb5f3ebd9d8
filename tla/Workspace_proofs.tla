-------------------------- MODULE Workspace_proofs --------------------------
(***************************************************************************)
(* Two readings that agree are a snapshot: the import and the application  *)
(* of Workspace, for any files, patches and writers.                       *)
(***************************************************************************)
EXTENDS Workspace, TLAPS

-----------------------------------------------------------------------------
(* The inductive invariant.                                                *)

TypeInv ==
    /\ source \in Tree /\ pc \in Steps
    /\ seen \in Partial /\ initial \in Partial /\ copy \in Partial
    /\ recorded \in BOOLEAN
    /\ edits \in 0 .. MaxEdits /\ crashes \in 0 .. MaxCrash
    /\ past \subseteq Tree /\ snapshot \subseteq Tree
    /\ late \subseteq Path /\ lost \subseteq Path

\* No content of the source comes back: what was read is older than any write
\* to come, and git writes only once the source is bound.
OldInv ==
    /\ \A p \in DOMAIN initial : initial[p] <= edits
    /\ ~Bound => \A p \in Path : source[p] <= edits
    /\ pc \in {"scan", "rescan"} => \A p \in DOMAIN seen : seen[p] <= edits

\* One tree that the source had, with every file that is still as the identity
\* says, or was when it was read again.
Moment(part) ==
    \E t \in past : \A p \in Path :
        source[p] = initial[p] \/ (p \in DOMAIN part /\ part[p] = initial[p])
            => t[p] = initial[p]

ImportInv ==
    /\ pc = "scan" => source \in past
    /\ pc = "copy" => initial \in Tree /\ Moment(copy)
    /\ pc = "rescan" => initial \in Tree /\ copy = initial /\ initial \in past
    /\ Bound => initial \in Tree /\ copy = initial /\ initial \in snapshot

ApplyInv ==
    /\ pc = "first" => Moment(seen)
    /\ pc \in {"check", "second", "git", "write"} => initial \in past

\* While git writes, what it has not yet written is as it has read it.
GitInv ==
    /\ pc = "write" =>
         /\ DOMAIN seen \subseteq Touched
         /\ \A p \in Touched \ DOMAIN seen : source[p] = initial[p] \/ p \in late
         /\ \A p \in DOMAIN seen : source[p] = New \/ p \in late
    /\ pc = "record" => Touched = {}
    /\ lost \subseteq late \cap Touched
    /\ lost # {} => Bound
    /\ \A p \in lost : source[p] # initial[p]

IInv == TypeInv /\ OldInv /\ ImportInv /\ ApplyInv /\ GitInv

-----------------------------------------------------------------------------
(* Partial trees.                                                          *)

\* A partial tree is a function on some of the files.
LEMMA PartialParts ==
    ASSUME NEW f \in Partial
    PROVE  /\ DOMAIN f \subseteq Path /\ f \in [DOMAIN f -> Content]
           /\ \A p \in DOMAIN f : f[p] \in Content
  <1>1. PICK S \in SUBSET Path : f \in [S -> Content]  BY DEF Partial
  <1>2. QED  BY <1>1

\* A function from some of the files to contents is a partial tree.
LEMMA IsPartial ==
    ASSUME NEW S \in SUBSET Path, NEW f \in [S -> Content]
    PROVE  f \in Partial
  BY DEF Partial

\* Reading one more file gives a partial tree.
LEMMA ReadMore ==
    ASSUME NEW f \in Partial, NEW p \in Path, NEW v \in Content
    PROVE  [q \in DOMAIN f \cup {p} |-> IF q = p THEN v ELSE f[q]] \in Partial
  <1> DEFINE g == [q \in DOMAIN f \cup {p} |-> IF q = p THEN v ELSE f[q]]
  <1>1. DOMAIN f \cup {p} \in SUBSET Path  BY PartialParts
  <1>2. \A q \in DOMAIN f \cup {p} : (IF q = p THEN v ELSE f[q]) \in Content  BY PartialParts
  <1>3. g \in [DOMAIN f \cup {p} -> Content]  BY <1>2
  <1>4. QED  BY <1>1, <1>3, IsPartial

\* A partial tree of all files is a tree, and a tree is a partial tree.
LEMMA WholeTree ==
    /\ \A f \in Partial : Path \ DOMAIN f = {} => f \in Tree
    /\ Tree \subseteq Partial /\ Nothing \in Partial
  <1>1. ASSUME NEW f \in Partial, Path \ DOMAIN f = {}
        PROVE  f \in Tree
    <2>1. DOMAIN f = Path  BY <1>1, PartialParts
    <2>2. QED  BY <2>1, PartialParts DEF Tree
  <1>2. Tree \subseteq Partial  BY IsPartial DEF Tree
  <1>3. Nothing \in [{} -> Content]  BY DEF Nothing
  <1>4. Nothing \in Partial  BY <1>3, IsPartial
  <1>5. QED  BY <1>1, <1>2, <1>4

\* Trees that agree on every file are one.
LEMMA SameTree ==
    ASSUME NEW t \in Tree, NEW u \in Tree, \A p \in Path : t[p] = u[p]
    PROVE  t = u
  BY DEF Tree
-----------------------------------------------------------------------------
(* The steps.                                                              *)

\* The numbers behind the contents: what is written is new.
LEMMA Contents ==
    ASSUME IInv
    PROVE  /\ MaxEdits \in Nat /\ edits \in Nat /\ edits <= MaxEdits
           /\ New = MaxEdits + 1 /\ Content = 0 .. (MaxEdits + 1)
           /\ \A p \in Path : source[p] \in Content
           /\ \A p \in DOMAIN initial : initial[p] \in Content /\ initial[p] <= edits
           /\ Touched \subseteq Path
           /\ Bound => DOMAIN initial = Path
  <1>1. \A p \in DOMAIN initial : initial[p] \in Content
    BY PartialParts DEF IInv, TypeInv
  <1>2. initial \in Tree => DOMAIN initial = Path  BY DEF Tree
  <1>3. QED  BY <1>1, <1>2, WorkspaceAssumption DEF IInv, TypeInv, OldInv, ImportInv, New, Content, Tree

\* Reading a file changes only what is read.
LEMMA ScanStep ==
    ASSUME IInv, NEW p \in Path, Scan(p)
    PROVE  IInv'
  <1> USE DEF IInv, history
  <1>1. /\ pc' = pc /\ pc \in {"scan", "rescan", "first", "second"}
        /\ UNCHANGED <<source, initial, copy, recorded, edits, crashes, past, snapshot, late, lost>>
        /\ seen' = [q \in DOMAIN seen \cup {p} |-> IF q = p THEN source[p] ELSE seen[q]]
        /\ p \notin DOMAIN seen
    BY DEF Scan, Unread
  <1>2. TypeInv'
    <2>1. seen' \in Partial  BY <1>1, ReadMore, Contents DEF TypeInv
    <2>2. QED  BY <1>1, <2>1 DEF TypeInv
  <1>3. OldInv'  BY <1>1 DEF OldInv, Bound
  <1>4. ImportInv'  BY <1>1 DEF ImportInv, Bound, Moment
  <1>5. ApplyInv'
    <2>1. ASSUME pc = "first"
          PROVE  Moment(seen)'
      <3>1. PICK t \in past : \A q \in Path :
              source[q] = initial[q] \/ (q \in DOMAIN seen /\ seen[q] = initial[q])
                => t[q] = initial[q]
        BY <2>1 DEF ApplyInv, Moment
      <3>2. \A q \in Path :
              source[q] = initial[q] \/ (q \in DOMAIN seen' /\ seen'[q] = initial[q])
                => t[q] = initial[q]
        BY <3>1, <1>1
      <3>3. QED  BY <3>1, <3>2, <1>1 DEF Moment
    <2>2. QED  BY <2>1, <1>1 DEF ApplyInv
  <1>6. GitInv'  BY <1>1 DEF GitInv, Bound
  <1>7. QED  BY <1>2, <1>3, <1>4, <1>5, <1>6

\* Copying a file.
LEMMA CopyStep ==
    ASSUME IInv, NEW p \in Path, Copy(p)
    PROVE  IInv'
  <1> USE DEF IInv, history
  <1>1. /\ pc' = pc /\ pc = "copy"
        /\ UNCHANGED <<source, seen, initial, recorded, edits, crashes, past, snapshot, late, lost>>
        /\ copy' = [q \in DOMAIN copy \cup {p} |-> IF q = p THEN source[p] ELSE copy[q]]
        /\ p \notin DOMAIN copy
    BY DEF Copy
  <1>2. TypeInv'
    <2>1. copy' \in Partial  BY <1>1, ReadMore, Contents DEF TypeInv
    <2>2. QED  BY <1>1, <2>1 DEF TypeInv
  <1>3. OldInv'  BY <1>1 DEF OldInv, Bound
  <1>4. ImportInv'
    <2>1. PICK t \in past : \A q \in Path :
            source[q] = initial[q] \/ (q \in DOMAIN copy /\ copy[q] = initial[q])
              => t[q] = initial[q]
      BY <1>1 DEF ImportInv, Moment
    <2>2. \A q \in Path :
            source[q] = initial[q] \/ (q \in DOMAIN copy' /\ copy'[q] = initial[q])
              => t[q] = initial[q]
      BY <2>1, <1>1
    <2>3. Moment(copy)'  BY <2>1, <2>2, <1>1 DEF Moment
    <2>4. QED  BY <2>3, <1>1 DEF ImportInv, Bound
  <1>5. ApplyInv'  BY <1>1 DEF ApplyInv
  <1>6. GitInv'  BY <1>1 DEF GitInv, Bound
  <1>7. QED  BY <1>2, <1>3, <1>4, <1>5, <1>6

\* A write of the user: the file no longer has any content that was read.
LEMMA EditStep ==
    ASSUME IInv, NEW p \in Path, Edit(p)
    PROVE  IInv'
  <1> USE DEF IInv
  <1>1. /\ edits < MaxEdits /\ edits' = edits + 1
        /\ source' = [source EXCEPT ![p] = edits + 1]
        /\ past' = past \cup {source'}
        /\ late' = IF pc = "write" THEN late \cup {p} ELSE late
        /\ UNCHANGED <<pc, seen, initial, copy, recorded, crashes, snapshot, lost>>
    BY DEF Edit
  <1>2. edits + 1 \in Content  BY <1>1, Contents
  <1>3. source' \in Tree  BY <1>1, <1>2 DEF TypeInv, Tree
  <1>4. /\ source'[p] = edits + 1
        /\ \A q \in Path : q # p => source'[q] = source[q]
    BY <1>1 DEF TypeInv, Tree
  <1>5. \A q \in DOMAIN initial : source'[p] # initial[q]  BY <1>4, Contents
  <1>6. TypeInv'
    <2>1. edits' \in 0 .. MaxEdits  BY <1>1, Contents
    <2>2. QED  BY <1>1, <1>3, <2>1 DEF TypeInv
  <1>7. OldInv'
    <2>1. \A q \in DOMAIN initial : initial[q] <= edits'
      BY <1>1, Contents DEF Content
    <2>2. ASSUME ~Bound
          PROVE  \A q \in Path : source'[q] <= edits'
      BY <2>2, <1>1, <1>4, Contents DEF OldInv
    <2>3. ASSUME pc \in {"scan", "rescan"}
          PROVE  \A q \in DOMAIN seen : seen[q] <= edits'
      <3>1. \A q \in DOMAIN seen : seen[q] \in Content  BY PartialParts DEF TypeInv
      <3>2. QED  BY <3>1, <2>3, <1>1, Contents DEF OldInv
    <2>4. QED  BY <2>1, <2>2, <2>3, <1>1 DEF OldInv, Bound
  <1>8. DOMAIN initial = Path => \A q \in Path : source'[q] = initial[q] => source[q] = initial[q]
    BY <1>4, <1>5
  <1>9. ImportInv'
    <2>1. ASSUME pc = "copy"
          PROVE  Moment(copy)'
      <3>1. DOMAIN initial = Path  BY <2>1 DEF ImportInv, Tree
      <3>2. PICK t \in past : \A q \in Path :
              source[q] = initial[q] \/ (q \in DOMAIN copy /\ copy[q] = initial[q])
                => t[q] = initial[q]
        BY <2>1 DEF ImportInv, Moment
      <3>3. \A q \in Path :
              source'[q] = initial[q] \/ (q \in DOMAIN copy /\ copy[q] = initial[q])
                => t[q] = initial[q]
        BY <3>1, <3>2, <1>8
      <3>4. QED  BY <3>2, <3>3, <1>1 DEF Moment
    <2>2. QED  BY <2>1, <1>1 DEF ImportInv, Bound
  <1>10. ApplyInv'
    <2>1. ASSUME pc = "first"
          PROVE  Moment(seen)'
      <3>1. DOMAIN initial = Path  BY <2>1, Contents DEF Bound
      <3>2. PICK t \in past : \A q \in Path :
              source[q] = initial[q] \/ (q \in DOMAIN seen /\ seen[q] = initial[q])
                => t[q] = initial[q]
        BY <2>1 DEF ApplyInv, Moment
      <3>3. \A q \in Path :
              source'[q] = initial[q] \/ (q \in DOMAIN seen /\ seen[q] = initial[q])
                => t[q] = initial[q]
        BY <3>1, <3>2, <1>8
      <3>4. QED  BY <3>2, <3>3, <1>1 DEF Moment
    <2>2. QED  BY <2>1, <1>1 DEF ApplyInv
  <1>11. GitInv'
    <2>1. ASSUME pc = "write"
          PROVE  /\ \A q \in Touched \ DOMAIN seen : source'[q] = initial[q] \/ q \in late'
                 /\ \A q \in DOMAIN seen : source'[q] = New \/ q \in late'
      <3>1. \A q \in Path : q \in late' \/ (source'[q] = source[q] /\ q \notin {p})
        BY <2>1, <1>1, <1>4
      <3>2. \A q \in late : q \in late'  BY <1>1
      <3>3. DOMAIN seen \subseteq Path  BY PartialParts DEF TypeInv
      <3>4. QED  BY <2>1, <3>1, <3>2, <3>3, Contents DEF GitInv
    <2>2. lost \subseteq late' \cap Touched  BY <1>1 DEF GitInv
    <2>3. \A q \in lost : source'[q] # initial[q]
      <3>1. ASSUME NEW q \in lost PROVE source'[q] # initial[q]
        <4>1. DOMAIN initial = Path /\ q \in Path
          BY <3>1, Contents DEF GitInv, TypeInv
        <4>2. QED  BY <4>1, <3>1, <1>8 DEF GitInv
      <3>2. QED  BY <3>1
    <2>4. QED  BY <2>1, <2>2, <2>3, <1>1 DEF GitInv, Bound
  <1>12. QED  BY <1>6, <1>7, <1>9, <1>10, <1>11

\* git writes one file: the source is no longer what any reading is about.
LEMMA GitWritesStep ==
    ASSUME IInv, NEW p \in Path, GitWrites(p)
    PROVE  IInv'
  <1> USE DEF IInv
  <1>1. /\ pc = "write" /\ p \in Touched /\ p \notin DOMAIN seen
        /\ seen' = [q \in DOMAIN seen \cup {p} |-> New]
        /\ lost' = IF source[p] = initial[p] THEN lost ELSE lost \cup {p}
        /\ source' = [source EXCEPT ![p] = New]
        /\ past' = past \cup {source'}
        /\ UNCHANGED <<pc, initial, copy, recorded, edits, crashes, snapshot, late>>
    BY DEF GitWrites
  <1>2. New \in Content  BY Contents
  <1>3. DOMAIN seen \subseteq Path  BY PartialParts DEF TypeInv
  <1>4. source' \in Tree  BY <1>1, <1>2 DEF TypeInv, Tree
  <1>5. /\ source'[p] = New
        /\ \A q \in Path : q # p => source'[q] = source[q]
    BY <1>1 DEF TypeInv, Tree
  <1>6. DOMAIN initial = Path  BY <1>1, Contents DEF Bound
  <1>7. TypeInv'
    <2>1. seen' \in [DOMAIN seen \cup {p} -> Content]  BY <1>1, <1>2
    <2>2. seen' \in Partial  BY <2>1, <1>3, IsPartial
    <2>3. QED  BY <1>1, <1>4, <2>2 DEF TypeInv
  <1>8. OldInv'  BY <1>1 DEF OldInv, Bound
  <1>9. ImportInv'  BY <1>1 DEF ImportInv, Bound
  <1>10. ApplyInv'  BY <1>1 DEF ApplyInv
  <1>11. GitInv'
    <2>1. /\ \A q \in DOMAIN seen' : q = p \/ q \in DOMAIN seen
          /\ \A q \in Touched \ DOMAIN seen' : q # p /\ q \in Touched \ DOMAIN seen
          /\ DOMAIN seen' \subseteq Touched
      BY <1>1 DEF GitInv
    <2>2. \A q \in Touched \ DOMAIN seen' : source'[q] = initial[q] \/ q \in late
      BY <2>1, <1>1, <1>5, Contents DEF GitInv
    <2>3. \A q \in DOMAIN seen' : source'[q] = New \/ q \in late
      BY <2>1, <1>1, <1>3, <1>5 DEF GitInv
    <2>4. source[p] # initial[p] => p \in late  BY <1>1 DEF GitInv
    <2>5. lost' \subseteq late \cap Touched  BY <2>4, <1>1 DEF GitInv
    <2>6. source'[p] # initial[p]  BY <1>5, <1>6, Contents
    <2>7. \A q \in lost' : source'[q] # initial[q]
      BY <2>6, <1>1, <1>5 DEF GitInv, TypeInv
    <2>8. QED  BY <2>1, <2>2, <2>3, <2>5, <2>7, <1>1 DEF GitInv, Bound
  <1>12. QED  BY <1>7, <1>8, <1>9, <1>10, <1>11

\* The steps that only go on to another step of the command, with nothing read.
LEMMA Moves ==
    ASSUME IInv, seen' = Nothing, pc' \in Steps,
           UNCHANGED <<source, initial, copy, edits, snapshot, late, lost>>,
           recorded' \in BOOLEAN, crashes' \in 0 .. MaxCrash, past' = past,
           pc' = "rescan" => initial \in Tree /\ copy = initial /\ initial \in past,
           pc' \notin {"scan", "copy", "first", "write"},
           pc' = "bound" \/ Bound' => Bound,
           pc' = "off" => ~Bound,
           ~Bound' => ~Bound,
           pc' \in {"check", "second", "git"} => initial \in past,
           pc' = "record" => Touched = {}
    PROVE  IInv'
  <1> USE DEF IInv
  <1>1. TypeInv'  BY WholeTree DEF TypeInv
  <1>2. OldInv'  BY DEF OldInv, Nothing
  <1>3. ImportInv'  BY DEF ImportInv
  <1>4. ApplyInv'  BY DEF ApplyInv
  <1>5. GitInv'  BY DEF GitInv
  <1>6. QED  BY <1>1, <1>2, <1>3, <1>4, <1>5

\* A command begins: its first reading is still empty.
LEMMA BeginStep ==
    ASSUME IInv, Import \/ Apply
    PROVE  IInv'
  <1> USE DEF IInv
  <1>1. /\ \/ pc = "off" /\ pc' = "scan"
           \/ pc = "bound" /\ pc' = "first"
        /\ seen' = Nothing /\ past' = {source}
        /\ UNCHANGED <<source, initial, copy, recorded, edits, crashes, snapshot, late, lost>>
    BY DEF Import, Apply, Goto
  <1>2. Bound' <=> Bound  BY <1>1 DEF Bound
  <1>3. TypeInv'  BY <1>1, WholeTree DEF TypeInv, Steps
  <1>4. OldInv'  BY <1>1, <1>2 DEF OldInv, Nothing
  <1>5. ImportInv'  BY <1>1, <1>2 DEF ImportInv
  <1>6. ApplyInv'
    <2>1. Moment(seen)'  BY <1>1 DEF Moment, Nothing
    <2>2. QED  BY <2>1, <1>1 DEF ApplyInv
  <1>7. GitInv'  BY <1>1, <1>2 DEF GitInv
  <1>8. QED  BY <1>3, <1>4, <1>5, <1>6, <1>7

\* The identity of the source is known: the copy is compared with it.
LEMMA ImportScannedStep ==
    ASSUME IInv, ImportScanned
    PROVE  IInv'
  <1> USE DEF IInv, history
  <1>1. /\ pc = "scan" /\ Path \ DOMAIN seen = {} /\ pc' = "copy"
        /\ seen' = Nothing /\ initial' = seen /\ copy' = Nothing
        /\ UNCHANGED <<source, recorded, edits, crashes, past, snapshot, late, lost>>
    BY DEF ImportScanned, Scanned, Goto, Unread
  <1>2. ~Bound /\ ~Bound'  BY <1>1 DEF Bound
  <1>3. TypeInv'  BY <1>1, WholeTree DEF TypeInv, Steps
  <1>4. OldInv'  BY <1>1, <1>2 DEF OldInv
  <1>5. ImportInv'
    <2>1. initial' \in Tree  BY <1>1, WholeTree DEF TypeInv
    <2>2. Moment(copy)'  BY <1>1 DEF Moment, Nothing, ImportInv
    <2>3. QED  BY <2>1, <2>2, <1>1, <1>2 DEF ImportInv
  <1>6. ApplyInv'  BY <1>1 DEF ApplyInv
  <1>7. GitInv'  BY <1>1, <1>2 DEF GitInv
  <1>8. QED  BY <1>3, <1>4, <1>5, <1>6, <1>7

\* A reading that was taken at one moment, wholly equal to the identity.
LEMMA WholeMoment ==
    ASSUME IInv, NEW part, Moment(part), part = initial, initial \in Tree
    PROVE  initial \in past
  <1>1. DOMAIN initial = Path  BY DEF Tree
  <1>2. PICK t \in past : \A p \in Path :
          source[p] = initial[p] \/ (p \in DOMAIN part /\ part[p] = initial[p])
            => t[p] = initial[p]
    BY DEF Moment
  <1>3. \A p \in Path : t[p] = initial[p]  BY <1>1, <1>2
  <1>4. t \in Tree  BY DEF IInv, TypeInv
  <1>5. t = initial  BY <1>3, <1>4, SameTree
  <1>6. QED  BY <1>2, <1>5

\* The copy is compared with the identity.
LEMMA CopyVerifiedStep ==
    ASSUME IInv, CopyVerified
    PROVE  IInv'
  <1>1. /\ pc = "copy" /\ seen' = Nothing
        /\ \/ copy = initial /\ pc' = "rescan"
           \/ pc' = "off"
        /\ UNCHANGED <<source, initial, copy, recorded, edits, crashes, past, snapshot, late, lost>>
    BY DEF CopyVerified, Same, Goto, Over, history
  <1>2. initial \in Tree /\ Moment(copy)  BY <1>1 DEF IInv, ImportInv
  <1>3. copy = initial => initial \in past  BY <1>2, WholeMoment
  <1>4. recorded \in BOOLEAN /\ crashes \in 0 .. MaxCrash  BY DEF IInv, TypeInv
  <1>5. QED  BY <1>1, <1>2, <1>3, <1>4, Moves DEF Bound, Steps

\* The second reading of the source ends the import.
LEMMA ImportedStep ==
    ASSUME IInv, Imported
    PROVE  IInv'
  <1> USE DEF IInv
  <1>1. /\ pc = "rescan" /\ seen' = Nothing
        /\ \/ pc' = "bound" /\ snapshot' = past
           \/ pc' = "off" /\ snapshot' = snapshot
        /\ UNCHANGED <<source, initial, copy, recorded, edits, crashes, past, late, lost>>
    BY DEF Imported, Scanned, Goto, Over
  <1>2. initial \in Tree /\ copy = initial /\ initial \in past  BY <1>1 DEF ImportInv
  <1>3. ~Bound  BY <1>1 DEF Bound
  <1>4. TypeInv'  BY <1>1, WholeTree DEF TypeInv, Steps
  <1>5. OldInv'  BY <1>1, <1>3 DEF OldInv, Nothing
  <1>6. ImportInv'  BY <1>1, <1>2 DEF ImportInv, Bound
  <1>7. ApplyInv'  BY <1>1 DEF ApplyInv
  <1>8. GitInv'  BY <1>1, <1>3 DEF GitInv
  <1>9. QED  BY <1>4, <1>5, <1>6, <1>7, <1>8

\* git reads the files of the patch and begins, or refuses.
LEMMA GitReadsStep ==
    ASSUME IInv, GitReads
    PROVE  IInv'
  <1>1. recorded \in BOOLEAN /\ crashes \in 0 .. MaxCrash  BY DEF IInv, TypeInv
  <1>2. CASE ~Fits
    <2>1. /\ pc = "git" /\ seen' = Nothing /\ pc' = "bound"
          /\ UNCHANGED <<source, initial, copy, recorded, edits, crashes, past, snapshot, late, lost>>
      BY <1>2 DEF GitReads, Goto, Over
    <2>2. QED  BY <2>1, <1>1, Moves DEF Bound, Steps
  <1>3. CASE Fits
    <2> USE DEF IInv
    <2>1. /\ pc = "git" /\ seen' = Nothing /\ pc' = "write" /\ late' = {}
          /\ UNCHANGED <<source, initial, copy, recorded, edits, crashes, past, snapshot, lost>>
      BY <1>3 DEF GitReads, Goto
    <2>2. Bound /\ Bound'  BY <2>1 DEF Bound
    <2>3. lost = {}  BY <1>3 DEF Fits, GitInv
    <2>4. TypeInv'  BY <2>1, WholeTree DEF TypeInv, Steps
    <2>5. OldInv'  BY <2>1, <2>2 DEF OldInv, Nothing
    <2>6. ImportInv'  BY <2>1, <2>2 DEF ImportInv
    <2>7. ApplyInv'  BY <2>1 DEF ApplyInv
    <2>8. GitInv'  BY <2>1, <2>2, <2>3, <1>3 DEF GitInv, Nothing, Fits
    <2>9. QED  BY <2>4, <2>5, <2>6, <2>7, <2>8
  <1>4. QED  BY <1>2, <1>3

\* The comparisons of the application, and the ends of a command.
LEMMA OtherSteps ==
    ASSUME IInv, Unchanged \/ Check \/ Preflight \/ GitFails \/ Applied \/ Crash
    PROVE  IInv'
  <1>1. recorded \in BOOLEAN /\ crashes \in 0 .. MaxCrash  BY DEF IInv, TypeInv
  <1>2. CASE Unchanged
    <2>1. /\ pc = "first" /\ seen' = Nothing
          /\ \/ seen = initial /\ Touched = {} /\ pc' = "record"
             \/ seen = initial /\ pc' = "check"
             \/ pc' = "bound"
          /\ UNCHANGED <<source, initial, copy, recorded, edits, crashes, past, snapshot, late, lost>>
      BY <1>2 DEF Unchanged, Scanned, Same, Goto, Over, history
    <2>2. initial \in Tree /\ Moment(seen)  BY <2>1 DEF IInv, ImportInv, ApplyInv, Bound
    <2>3. seen = initial => initial \in past  BY <2>2, WholeMoment
    <2>4. QED  BY <2>1, <2>3, <1>1, Moves DEF Bound, Steps
  <1>3. CASE Check \/ Preflight
    <2>1. /\ pc \in {"check", "second"} /\ seen' = Nothing
          /\ pc' \in {"second", "git", "bound"}
          /\ UNCHANGED <<source, initial, copy, recorded, edits, crashes, past, snapshot, late, lost>>
      BY <1>3 DEF Check, Preflight, Scanned, Goto, Over, history
    <2>2. initial \in past  BY <2>1 DEF IInv, ApplyInv
    <2>3. QED  BY <2>1, <2>2, <1>1, Moves DEF Bound, Steps
  <1>4. CASE GitFails \/ Applied
    <2>1. /\ pc \in {"write", "record"} /\ seen' = Nothing /\ pc' = "bound"
          /\ recorded' \in BOOLEAN
          /\ UNCHANGED <<source, initial, copy, edits, crashes, past, snapshot, late, lost>>
      BY <1>4, <1>1 DEF GitFails, Applied, Written, Goto, Over, history
    <2>2. QED  BY <2>1, <1>1, Moves DEF Bound, Steps
  <1>5. CASE Crash
    <2>1. /\ seen' = Nothing /\ crashes' \in 0 .. MaxCrash
          /\ \/ ~Bound /\ pc' = "off"
             \/ Bound /\ pc' = "bound"
          /\ UNCHANGED <<source, initial, copy, recorded, edits, past, snapshot, late, lost>>
      <3>1. crashes' \in 0 .. MaxCrash
        BY <1>5, <1>1, WorkspaceAssumption DEF Crash
      <3>2. QED  BY <1>5, <3>1 DEF Crash, Goto, Over, history, Bound
    <2>2. QED  BY <2>1, <1>1, Moves DEF Bound, Steps
  <1>6. QED  BY <1>2, <1>3, <1>4, <1>5

-----------------------------------------------------------------------------
(* The theorems.                                                           *)

\* The invariant is inductive.
LEMMA InvHolds == Spec => []IInv
  <1>1. Init => IInv
    <2> SUFFICES ASSUME Init PROVE IInv  OBVIOUS
    <2>1. TypeInv
      <3>1. source \in Tree  BY WorkspaceAssumption DEF Init, Tree, Content, New
      <3>2. /\ seen \in Partial /\ initial \in Partial /\ copy \in Partial
        BY WholeTree DEF Init
      <3>3. edits \in 0 .. MaxEdits /\ crashes \in 0 .. MaxCrash
        BY WorkspaceAssumption DEF Init
      <3>4. QED  BY <3>1, <3>2, <3>3 DEF Init, TypeInv, Steps
    <2>2. OldInv  BY DEF Init, OldInv, Nothing, Bound
    <2>3. QED  BY <2>1, <2>2 DEF Init, IInv, ImportInv, ApplyInv, GitInv, Bound
  <1>2. IInv /\ [Next]_vars => IInv'
    <2> SUFFICES ASSUME IInv, [Next]_vars PROVE IInv'  OBVIOUS
    <2>1. CASE UNCHANGED vars
      <3>1. TypeInv' /\ OldInv' /\ ImportInv' /\ ApplyInv' /\ GitInv'
        BY <2>1 DEF IInv, TypeInv, OldInv, ImportInv, ApplyInv, GitInv, Moment, Bound,
                    vars
      <3>2. QED  BY <3>1 DEF IInv
    <2>2. ASSUME NEW p \in Path, Scan(p) \/ Copy(p) \/ GitWrites(p) \/ Edit(p)
          PROVE  IInv'
      BY <2>2, ScanStep, CopyStep, GitWritesStep, EditStep
    <2>3. QED
      BY <2>1, <2>2, BeginStep, ImportScannedStep, CopyVerifiedStep, ImportedStep,
         GitReadsStep, OtherSteps DEF Next
  <1>3. QED  BY <1>1, <1>2, PTL DEF Spec

\* Every variable keeps its type, whatever is interrupted.
THEOREM TypesHold == Spec => []TypeOK
  <1>1. IInv => TypeOK  BY DEF IInv, TypeInv, ImportInv, TypeOK
  <1>2. QED  BY <1>1, InvHolds, PTL

\* What importWorkspace preserves is the source at one moment of the import,
\* for any number of files and of writes while it reads them.
THEOREM TheImportIsASnapshot == Spec => []ImportIsSnapshot
  <1>1. IInv => ImportIsSnapshot  BY DEF IInv, ImportInv, ImportIsSnapshot
  <1>2. QED  BY <1>1, InvHolds, PTL

\* When git starts to apply a patch, the source was exactly what was imported at
\* one moment of this application.
THEOREM AppliedOntoWhatWasImported == Spec => []AppliedOntoImported
  <1>1. IInv => AppliedOntoImported  BY DEF IInv, ApplyInv, AppliedOntoImported
  <1>2. QED  BY <1>1, InvHolds, PTL

\* A write of the user is overwritten only when it falls between git's reading of
\* that file and its writing of it.
THEOREM WritesAreKept == Spec => []EditsKept
  <1>1. IInv => EditsKept  BY DEF IInv, GitInv, EditsKept
  <1>2. QED  BY <1>1, InvHolds, PTL

\* The source-application entry is written only over a source that has the whole
\* patch, also after failed and interrupted applications.
THEOREM TheRecordIsTrue == Spec => RecordedIsApplied
  <1>1. IInv /\ [Next]_vars => (recorded' /\ ~recorded => \A p \in Touched : source[p] = New \/ p \in late)
    <2> SUFFICES ASSUME IInv, [Next]_vars, recorded', ~recorded
                 PROVE  \A p \in Touched : source[p] = New \/ p \in late
      OBVIOUS
    <2>1. Applied
      BY DEF Next, vars, Scan, Copy, GitWrites, Edit, Import, ImportScanned, CopyVerified,
             Imported, Apply, Unchanged, Check, Preflight, GitReads, GitFails, Crash
    <2>2. CASE pc = "record"  BY <2>2 DEF IInv, GitInv
    <2>3. CASE Written  BY <2>3 DEF Written, IInv, GitInv
    <2>4. QED  BY <2>1, <2>2, <2>3 DEF Applied
  <1>2. QED  BY <1>1, InvHolds, PTL DEF Spec, RecordedIsApplied
=============================================================================
