----------------------------- MODULE FixerProofs -----------------------------
(* Proofs about Fixer, for any documents, places, packages and fixes.       *)
EXTENDS Fixer, FiniteSetTheorems, WellFoundedInduction, TLAPS

\* A document is at one path, and leaves the path it had at most once: where
\* it comes to it fits.
Kept(d) == files[start[d]] = d

OnePlace == \A p, q \in Present : files[p] = files[q] => p = q

MovedOnce ==
  /\ start \in Starts
  /\ \A p \in Present : p = start[files[p]] \/
       (p \in modified /\ <<p.dir, package[files[p]]>> \in Fits)

\* The provider's sets: what left its first path, and what is elsewhere or
\* was changed.
SetsTell ==
  /\ deleted = {start[d] : d \in {e \in Docs : ~Kept(e)}}
  /\ modified \subseteq Present

Reported(d) == \E c \in manyToOne \union sourceFile : c[2] = start[d]

AllAccounted == \A d \in Docs : Reported(d) <=> \A p \in Paths : files[p] # d

\* What there is on disk, while the files are fixed, removed and written.
OnDisk(p) == disk[p] = <<files[p], wrong[files[p]]>>

DiskLags ==
  /\ phase = "fixing" => \A p \in Present \ modified : OnDisk(p)
  /\ phase = "removing" =>
       /\ todo \subseteq deleted
       /\ \A p \in Present \ modified : OnDisk(p)
       /\ \A p \in deleted \ todo : disk[p] = NoDoc
  /\ phase = "writing" =>
       /\ todo \subseteq modified
       /\ \A p \in Present \ todo : OnDisk(p)
       /\ \A p \in deleted \ Present : disk[p] = NoDoc
  /\ result = "ok" /\ ~dryRun =>
       /\ \A p \in Present : OnDisk(p)
       /\ \A p \in deleted \ Present : disk[p] = NoDoc

ConflictsEnd ==
  /\ HasConflicts => onConflict = "error"
  /\ phase \in {"removing", "writing"} \/ result = "ok" => ~HasConflicts
  /\ result = "conflicts" => Fixable(Mismatch) = {}

\* As long as there is no conflict.
ReportTells ==
  ~HasConflicts =>
    \A p \in Paths :
      /\ fileFixes[p] = IF files[p] = NoDoc THEN Nothing ELSE applied[files[p]]
      /\ movedFiles[p] = IF files[p] = NoDoc \/ start[files[p]] = p THEN <<>>
                         ELSE <<start[files[p]]>>

Entries(s) == {s[i] : i \in DOMAIN s}
Listed(p) == Entries(movedFiles[p])

\* If conflicts end the command, the paths listed for a path are those of all
\* the files that belong there and have left theirs.
ListsTell ==
  /\ \A c \in manyToOne : c[1] \notin Starting
  /\ onConflict = "error" =>
       \A p \in Paths :
         Listed(p) = {start[d] : d \in {e \in Docs : ~Kept(e) /\ Wanted(e) = p}}

FixerInv ==
  /\ OnePlace /\ MovedOnce /\ SetsTell /\ AllAccounted
  /\ DiskLags /\ ConflictsEnd /\ ReportTells /\ ListsTell

-----------------------------------------------------------------------------
(* Types.                                                                   *)

LEMMA HomeIsPath == ASSUME TypeOK, NEW p \in Present
                    PROVE  Home(p) \in Paths
  BY TargetsFit DEF TypeOK, Present, Home, Paths

LEMMA CreditTypes ==
  ASSUME NEW S, NEW counts \in [S -> [Fixes -> Nat]], NEW p \in S, NEW f \in Fixes
  PROVE  Credit(counts, p, f) \in [S -> [Fixes -> Nat]]
  BY DEF Credit

LEMMA NothingIsCount == Nothing \in [Fixes -> Nat]
  BY DEF Nothing

LEMMA MergedTypes ==
  ASSUME TypeOK, NEW from \in Paths, NEW to \in Paths
  PROVE  Merged(from, to) \in [Paths -> [Fixes -> Nat]]
<1>1. [f \in Fixes |-> fileFixes[to][f] + fileFixes[from][f]
                          + IF f = Mismatch THEN 1 ELSE 0] \in [Fixes -> Nat]
  BY DEF TypeOK
<1> QED
  BY <1>1, NothingIsCount DEF Merged, TypeOK

LEMMA MoveTypes ==
  ASSUME TypeOK, NEW from \in Present, NEW to \in Paths, ReportMove(from, to)
  PROVE  /\ fileFixes' \in [Paths -> [Fixes -> Nat]]
         /\ movedFiles' \in [Paths -> Seq(Paths)]
         /\ applied' \in [Docs -> [Fixes -> Nat]]
<1>1. from \in Paths /\ files[from] \in Docs /\ Mismatch \in Fixes
  BY DEF Present, TypeOK, Fixes
<1>2. Append(movedFiles[to], from) \in Seq(Paths)
  BY <1>1 DEF TypeOK
<1>3. movedFiles' \in [Paths -> Seq(Paths)]
  BY <1>2 DEF ReportMove, TypeOK
<1>4. fileFixes' \in [Paths -> [Fixes -> Nat]]
  BY <1>1, MergedTypes DEF ReportMove
<1>5. applied' \in [Docs -> [Fixes -> Nat]]
  BY <1>1, CreditTypes DEF ReportMove, TypeOK
<1> QED
  BY <1>3, <1>4, <1>5

-----------------------------------------------------------------------------
(* The path that renameCandidate arrives at.                                *)

\* A file that does not fit goes to another directory, and is where it was
\* given.
LEMMA MoveGoesAway ==
  ASSUME TypeOK, MovedOnce, NEW p \in Fixable(Mismatch)
  PROVE  /\ p \in Present /\ p \in Paths /\ files[p] \in Docs
         /\ p = start[files[p]]
         /\ Home(p) \in Paths
         /\ Home(p).dir # p.dir /\ Home(p).name = p.name /\ Home(p).n = p.n
         /\ \A q \in Paths : SameName(Home(p), q) =>
              q # p /\ <<q.dir, package[files[p]]>> \in Fits
<1>1. /\ p \in Present /\ p \in Paths /\ files[p] \in Docs
      /\ <<p.dir, package[files[p]]>> \notin Fits
  BY DEF Fixable, Violates, Present, TypeOK
<1>2. Home(p) \in Paths /\ p = start[files[p]]
  BY <1>1, HomeIsPath DEF MovedOnce
<1>3. /\ Home(p).dir = Target[<<p.dir, package[files[p]]>>]
      /\ Home(p).name = p.name /\ Home(p).n = p.n
  BY <1>1 DEF Home, Paths
<1>4. <<Home(p).dir, package[files[p]]>> \in Fits
  BY <1>1, <1>3, TargetsFit DEF Paths, TypeOK
<1> QED
  BY <1>1, <1>2, <1>3, <1>4 DEF SameName

\* A set of numbers that is not empty has a least element.
LEMMA LeastNumber ==
  ASSUME NEW T, T \subseteq Nat, T # {}
  PROVE  \E x \in T : \A y \in T : x <= y
<1>1. \E x \in T : \A y \in T : <<y, x>> \notin OpToRel(<, Nat)
  BY NatLessThanWellFounded, WFMin
<1>2. \A x, y \in T : <<y, x>> \notin OpToRel(<, Nat) => x <= y
  BY DEF OpToRel
<1> QED
  BY <1>1, <1>2

\* Among as many numbers as there are documents, one is free: the document
\* that moves is at none of the paths.
LEMMA OneIsFree ==
  ASSUME TypeOK, OnePlace, MovedOnce, NEW p \in Fixable(Mismatch)
  PROVE  \E q \in Paths :
           SameName(Home(p), q) /\ Home(p).n <= q.n /\ files[q] = NoDoc
<1> DEFINE last == Cardinality(Docs) - 1
           Numbered(i) == [Home(p) EXCEPT !.n = p.n + i]
           occupant == [i \in 0..last |-> files[Numbered(i)]]
           rest == Docs \ {files[p]}
<1>1. /\ p \in Paths /\ files[p] \in Docs /\ p = start[files[p]]
      /\ Home(p) \in Paths /\ Home(p).n = p.n
      /\ \A q \in Paths : SameName(Home(p), q) => q # p
  BY MoveGoesAway
<1>2. Cardinality(Docs) \in Nat /\ Cardinality(Docs) # 0
  BY <1>1, DocsAreFinite, FS_CardinalityType, FS_EmptySet
<1>3. IsFiniteSet(rest) /\ Cardinality(rest) = last
  BY <1>1, DocsAreFinite, FS_RemoveElement
<1>4. IsFiniteSet(0..last) /\ Cardinality(0..last) = last + 1
  BY <1>2, FS_Interval
<1>5. \A i \in 0..last : /\ Numbered(i) \in Paths /\ SameName(Home(p), Numbered(i))
                         /\ Numbered(i).n = p.n + i /\ p.n \in Nat
  <2>1. p.n + Cardinality(Docs) <= MaxSuffix + 1 /\ p.n \in Nat /\ MaxSuffix \in Nat
    BY <1>1, SuffixesSuffice DEF MovedOnce, Paths
  <2> QED
    BY <1>1, <1>2, <2>1 DEF Paths, SameName
<1> HIDE DEF Numbered
<1>6. SUFFICES ASSUME \A q \in Paths :
                        SameName(Home(p), q) /\ Home(p).n <= q.n => files[q] # NoDoc
               PROVE  FALSE
  OBVIOUS
<1>7. \A i \in 0..last : Numbered(i) \in Present /\ files[Numbered(i)] \in rest
  <2> SUFFICES ASSUME NEW i \in 0..last
               PROVE  Numbered(i) \in Present /\ files[Numbered(i)] \in rest
    OBVIOUS
  <2>1. files[Numbered(i)] # NoDoc
    BY <1>1, <1>2, <1>5, <1>6
  <2> QED
    BY <1>1, <1>5, <2>1 DEF Present, TypeOK, OnePlace
<1>8. occupant \in [0..last -> rest]
  BY <1>7
<1>9. \E i, j \in 0..last : i # j /\ occupant[i] = occupant[j]
  <2> HIDE DEF occupant, rest, last
  <2>1. Cardinality(rest) < Cardinality(0..last)
    BY <1>2, <1>3, <1>4 DEF last
  <2> QED
    BY <1>3, <1>4, <1>8, <2>1, FS_PigeonHole
<1>10. PICK i, j \in 0..last : i # j /\ occupant[i] = occupant[j]
  BY <1>9
<1>11. files[Numbered(i)] = files[Numbered(j)]
  BY <1>10
<1>12. Numbered(i) = Numbered(j)
  BY <1>7, <1>11 DEF OnePlace
<1>13. i \in Nat /\ j \in Nat
  BY <1>2
<1> QED
  BY <1>5, <1>10, <1>12, <1>13

\* renameCandidate ends, and with a path at which there is no file.
LEMMA FirstFreeIsFree ==
  ASSUME TypeOK, OnePlace, MovedOnce, NEW p \in Fixable(Mismatch)
  PROVE  /\ FirstFree(Home(p)) \in Paths
         /\ files[FirstFree(Home(p))] = NoDoc
         /\ SameName(Home(p), FirstFree(Home(p)))
         /\ files[Home(p)] = NoDoc => FirstFree(Home(p)) = Home(p)
<1> DEFINE to == Home(p)
           Free(q) == SameName(to, q) /\ to.n <= q.n /\ files[q] = NoDoc
           numbers == {q.n : q \in {r \in Paths : Free(r)}}
<1>1. to \in Paths /\ to.n \in Nat
  BY MoveGoesAway DEF Paths
<1>2. numbers \subseteq Nat /\ numbers # {}
  BY OneIsFree DEF Paths
<1>3. PICK x \in numbers : \A y \in numbers : x <= y
  BY <1>2, LeastNumber
<1>4. \E q \in Paths : Free(q) /\ \A r \in Paths : Free(r) => q.n <= r.n
  BY <1>3
<1>5. /\ FirstFree(to) \in Paths
      /\ Free(FirstFree(to)) /\ \A r \in Paths : Free(r) => FirstFree(to).n <= r.n
  <2> HIDE DEF to
  <2>1. FirstFree(to) = CHOOSE q \in Paths : Free(q) /\ \A r \in Paths : Free(r) => q.n <= r.n
    BY DEF FirstFree
  <2> QED
    BY <1>4, <2>1
<1>6. files[to] = NoDoc => FirstFree(to) = to
  BY <1>1, <1>5 DEF SameName, Paths
<1> QED
  BY <1>5, <1>6

-----------------------------------------------------------------------------
(* Every action keeps the types.                                            *)

LEMMA OccupantIs ==
  ASSUME Init, NEW p \in Paths
  PROVE  /\ p \notin Starting => Occupant(p) = NoDoc
         /\ \A d \in Docs : start[d] = p => Occupant(p) = d
  BY PlacesDiffer DEF Init, Occupant, Starting

LEMMA InitTypes == Init => TypeOK
<1> SUFFICES ASSUME Init PROVE TypeOK
  OBVIOUS
<1>1. /\ package \in [Docs -> Packages] /\ onConflict \in {"error", "rename"}
      /\ dryRun \in BOOLEAN /\ start \in [Docs -> Paths]
      /\ wrong \in [Docs -> SUBSET TextFixes]
  BY PlacesDiffer, TextsAreTexts DEF Init
<1>2. \A p \in Paths : Occupant(p) \in Docs \union {NoDoc}
  BY OccupantIs DEF Starting
<1>3. files \in [Paths -> Docs \union {NoDoc}]
  BY <1>2 DEF Init
<1>4. /\ fileFixes \in [Paths -> [Fixes -> Nat]] /\ applied \in [Docs -> [Fixes -> Nat]]
      /\ movedFiles \in [Paths -> Seq(Paths)]
  BY NothingIsCount DEF Init
<1>5. disk \in [Paths -> (Docs \X SUBSET TextFixes) \union {Foreign, Torn, NoDoc}]
  <2> DEFINE Given(p) == CASE p \in others -> Foreign
                           [] p \in Starting -> <<Occupant(p), wrong[Occupant(p)]>>
                           [] OTHER -> NoDoc
  <2>1. \A p \in Starting : Occupant(p) \in Docs
    BY <1>1, OccupantIs DEF Starting
  <2>2. \A p \in Paths : Given(p) \in (Docs \X SUBSET TextFixes) \union {Foreign, Torn, NoDoc}
    <3> SUFFICES ASSUME NEW p \in Paths
                 PROVE  Given(p) \in (Docs \X SUBSET TextFixes) \union {Foreign, Torn, NoDoc}
      OBVIOUS
    <3>1. CASE p \in others
      BY <3>1 DEF Init
    <3>2. CASE p \notin others /\ p \in Starting
      BY <1>1, <2>1, <3>2
    <3>3. CASE p \notin others /\ p \notin Starting
      BY <3>3
    <3> QED
      BY <3>1, <3>2, <3>3
  <2>3. disk = [p \in Paths |-> Given(p)]
    BY DEF Init
  <2> QED
    BY <2>2, <2>3
<1>6. others \in SUBSET Paths
  BY PlacesDiffer DEF Init
<1> QED
  BY <1>1, <1>3, <1>4, <1>5, <1>6 DEF Init, TypeOK

LEMMA RepairTypes ==
  ASSUME TypeOK, NEW p \in Present, NEW f \in TextFixes, Repair(p, f)
  PROVE  TypeOK'
<1> USE DEF input, conflicts, control
<1>1. p \in Paths /\ files[p] \in Docs /\ f \in Fixes
  BY DEF Present, TypeOK, Fixes
<1>2. \A text \in SUBSET ((wrong[files[p]] \ {f}) \union Breaks[f]) : text \in SUBSET TextFixes
  BY <1>1, FixesProgress DEF TypeOK
<1>3. wrong' \in [Docs -> SUBSET TextFixes]
  BY <1>1, <1>2 DEF Repair, TypeOK
<1>4. modified' \in SUBSET Paths
  BY <1>1 DEF Repair, TypeOK
<1>5. fileFixes' \in [Paths -> [Fixes -> Nat]] /\ applied' \in [Docs -> [Fixes -> Nat]]
  BY <1>1, CreditTypes DEF Repair, TypeOK
<1> QED
  BY <1>3, <1>4, <1>5 DEF Repair, TypeOK

LEMMA MovingTypes ==
  ASSUME TypeOK, OnePlace, MovedOnce, NEW p \in Present, Move(p) \/ Conflict(p)
  PROVE  TypeOK'
<1> USE DEF input, conflicts, control
<1>1. p \in Paths /\ files[p] \in Docs /\ p \in Fixable(Mismatch)
  BY DEF Present, TypeOK, Move, Conflict
<1>2. CASE Move(p)
  <2> DEFINE to == FirstFree(Home(p))
  <2>1. to \in Paths
    BY <1>1, FirstFreeIsFree
  <2> HIDE DEF to
  <2>2. ReportMove(p, to) /\ files' = [files EXCEPT ![to] = files[p], ![p] = NoDoc]
        /\ modified' = (modified \union {to}) \ {p} /\ deleted' = deleted \union {p}
    BY <1>2 DEF Move, to
  <2>3. files' \in [Paths -> Docs \union {NoDoc}]
        /\ modified' \in SUBSET Paths /\ deleted' \in SUBSET Paths
    BY <1>1, <2>1, <2>2 DEF TypeOK
  <2> QED
    BY <1>2, <2>1, <2>2, <2>3, MoveTypes DEF Move, TypeOK
<1>3. CASE Conflict(p)
  <2> DEFINE to == Home(p)
  <2>1. to \in Paths
    BY HomeIsPath
  <2> HIDE DEF to
  <2>2. ReportMove(p, to) /\ files' = [files EXCEPT ![p] = NoDoc]
        /\ modified' = modified \ {p} /\ deleted' = deleted \union {p}
        /\ manyToOne' \subseteq manyToOne \union {<<to, p>>}
        /\ sourceFile' \subseteq sourceFile \union {<<to, p>>}
    BY <1>3 DEF Conflict, to
  <2>3. files' \in [Paths -> Docs \union {NoDoc}]
        /\ modified' \in SUBSET Paths /\ deleted' \in SUBSET Paths
        /\ manyToOne' \in SUBSET (Paths \X Paths) /\ sourceFile' \in SUBSET (Paths \X Paths)
    BY <1>1, <2>1, <2>2 DEF TypeOK
  <2> QED
    BY <1>3, <2>1, <2>2, <2>3, MoveTypes DEF Conflict, TypeOK
<1> QED
  BY <1>2, <1>3

LEMMA DiskTypes ==
  ASSUME TypeOK, NEW p \in todo, RemoveFile(p) \/ WriteFile(p)
  PROVE  TypeOK'
<1> USE DEF input, conflicts, control, provider, report
<1>1. p \in Paths
  BY DEF TypeOK
<1>2. disk' \in [Paths -> (Docs \X SUBSET TextFixes) \union {Foreign, Torn, NoDoc}]
  <2>1. CASE RemoveFile(p)
    BY <1>1, <2>1 DEF RemoveFile, TypeOK
  <2>2. CASE WriteFile(p)
    <3>1. <<files[p], wrong[files[p]]>> \in Docs \X SUBSET TextFixes
      BY <1>1, <2>2 DEF WriteFile, TypeOK
    <3> QED
      BY <1>1, <2>2, <3>1 DEF WriteFile, TypeOK
  <2> QED
    BY <2>1, <2>2
<1>3. todo' \in SUBSET Paths
  BY DEF RemoveFile, WriteFile, TypeOK
<1> QED
  BY <1>2, <1>3 DEF RemoveFile, WriteFile, TypeOK

LEMMA EndTypes ==
  ASSUME TypeOK, Stop \/ Fail \/ FailOnDisk \/ BeginWrites \/ Finish \/ UNCHANGED vars
  PROVE  TypeOK'
<1> USE DEF input, conflicts, control, provider, report
<1>1. CASE Stop
  BY <1>1 DEF Stop, Leave, TypeOK
<1>2. CASE Fail
  BY <1>2 DEF Fail, TypeOK
<1>3. CASE FailOnDisk
  <2>1. disk' \in [Paths -> (Docs \X SUBSET TextFixes) \union {Foreign, Torn, NoDoc}]
    BY <1>3 DEF FailOnDisk, TypeOK
  <2> QED
    BY <1>3, <2>1 DEF FailOnDisk, TypeOK
<1>4. CASE BeginWrites
  BY <1>4 DEF BeginWrites, TypeOK
<1>5. CASE Finish
  BY <1>5 DEF Finish, TypeOK
<1>6. CASE UNCHANGED vars
  BY <1>6 DEF vars, TypeOK
<1> QED
  BY <1>1, <1>2, <1>3, <1>4, <1>5, <1>6

LEMMA TypesStep ==
  ASSUME TypeOK, OnePlace, MovedOnce, [Next]_vars
  PROVE  TypeOK'
<1>1. CASE FixOne
  BY <1>1, RepairTypes, MovingTypes DEF FixOne
<1>2. CASE \E p \in todo : RemoveFile(p) \/ WriteFile(p)
  BY <1>2, DiskTypes
<1>3. CASE Stop \/ Fail \/ FailOnDisk \/ BeginWrites \/ Finish \/ UNCHANGED vars
  BY <1>3, EndTypes
<1> QED
  BY <1>1, <1>2, <1>3 DEF Next, Progress

-----------------------------------------------------------------------------
(* Where the documents are, and what the provider's sets say of it.         *)

PlacesInv == OnePlace /\ MovedOnce /\ SetsTell /\ AllAccounted

\* A rename: the document leaves the path at which it was given for one that
\* is free and fits.
LEMMA MoveEffect ==
  ASSUME TypeOK, OnePlace, MovedOnce, NEW p \in Present, Move(p)
  PROVE  \E to \in Paths :
           /\ to # p /\ files[to] = NoDoc /\ <<to.dir, package[files[p]]>> \in Fits
           /\ files[p] \in Docs /\ p = start[files[p]] /\ p \in Fixable(Mismatch)
           /\ \A q \in Paths : files'[q] = IF q = to THEN files[p]
                                           ELSE IF q = p THEN NoDoc ELSE files[q]
           /\ modified' = (modified \union {to}) \ {p}
           /\ deleted' = deleted \union {p}
           /\ ReportMove(p, to)
           /\ onConflict = "error" => to = Home(p)
<1>1. p \in Paths /\ files[p] \in Docs /\ p = start[files[p]] /\ p \in Fixable(Mismatch)
  BY MoveGoesAway DEF Move
<1> DEFINE to == FirstFree(Home(p))
<1>2. /\ to \in Paths /\ files[to] = NoDoc /\ SameName(Home(p), to)
      /\ files[Home(p)] = NoDoc => to = Home(p)
  BY <1>1, FirstFreeIsFree
<1>3. to # p /\ <<to.dir, package[files[p]]>> \in Fits
  BY <1>1, <1>2, MoveGoesAway
<1> HIDE DEF to
<1>4. /\ files' = [files EXCEPT ![to] = files[p], ![p] = NoDoc]
      /\ modified' = (modified \union {to}) \ {p}
      /\ deleted' = deleted \union {p}
      /\ ReportMove(p, to)
      /\ onConflict = "error" => files[Home(p)] = NoDoc
  BY DEF Move, to
<1>5. \A q \in Paths : files'[q] = IF q = to THEN files[p]
                                   ELSE IF q = p THEN NoDoc ELSE files[q]
  BY <1>1, <1>2, <1>3, <1>4 DEF TypeOK
<1> QED
  BY <1>1, <1>2, <1>3, <1>4, <1>5

\* A conflict: the document leaves the provider.
LEMMA ConflictEffect ==
  ASSUME TypeOK, OnePlace, MovedOnce, NEW p \in Present, Conflict(p)
  PROVE  /\ files[p] \in Docs /\ p = start[files[p]] /\ p \in Fixable(Mismatch)
         /\ Home(p) \in Paths /\ Home(p) # p /\ onConflict = "error"
         /\ \A q \in Paths : files'[q] = IF q = p THEN NoDoc ELSE files[q]
         /\ modified' = modified \ {p}
         /\ deleted' = deleted \union {p}
         /\ (manyToOne \union sourceFile)' = (manyToOne \union sourceFile) \union {<<Home(p), p>>}
<1>1. p \in Paths /\ files[p] \in Docs /\ p = start[files[p]] /\ p \in Fixable(Mismatch)
      /\ Home(p) \in Paths /\ Home(p) # p
  BY MoveGoesAway DEF Conflict
<1>2. \A q \in Paths : files'[q] = IF q = p THEN NoDoc ELSE files[q]
  BY <1>1 DEF Conflict, TypeOK
<1>3. (manyToOne \union sourceFile)' = (manyToOne \union sourceFile) \union {<<Home(p), p>>}
  BY DEF Conflict
<1> QED
  BY <1>1, <1>2, <1>3 DEF Conflict

\* Whichever happens, that document alone is no longer where it was given.
LEMMA LeavesAlone ==
  ASSUME TypeOK, OnePlace, MovedOnce, NEW p \in Present, Move(p) \/ Conflict(p)
  PROVE  /\ UNCHANGED input
         /\ \A e \in Docs : Kept(e)' <=> Kept(e) /\ e # files[p]
<1> DEFINE d == files[p]
<1>1. PICK to \in Paths :
        /\ to # p /\ d \in Docs /\ p = start[d]
        /\ \A q \in Paths : q # to => files'[q] = IF q = p THEN NoDoc ELSE files[q]
        /\ (files[to] = NoDoc /\ files'[to] = d) \/ files'[to] = files[to]
  <2>1. CASE Move(p)
    <3>1. PICK to \in Paths :
            /\ to # p /\ files[to] = NoDoc /\ d \in Docs /\ p = start[d]
            /\ \A q \in Paths : files'[q] = IF q = to THEN d
                                            ELSE IF q = p THEN NoDoc ELSE files[q]
      BY <2>1, MoveEffect
    <3>2. files'[to] = d /\ \A q \in Paths : q # to => files'[q] = IF q = p THEN NoDoc ELSE files[q]
      BY <3>1
    <3> QED
      BY <3>1, <3>2
  <2>2. CASE Conflict(p)
    BY <2>2, ConflictEffect
  <2> QED
    BY <2>1, <2>2
<1>2. UNCHANGED input
  BY DEF Move, Conflict
<1>3. p \in Paths /\ d # NoDoc /\ start \in [Docs -> Paths]
      /\ \A e, f \in Docs : start[e] = start[f] => e = f
  BY <1>1, PlacesDiffer DEF Present, TypeOK, MovedOnce
<1> HIDE DEF d
<1>4. \A e \in Docs : Kept(e)' <=> Kept(e) /\ e # d
  BY <1>1, <1>2, <1>3, ValuesDiffer DEF Kept, input
<1> QED
  BY <1>2, <1>4 DEF d

LEMMA InitPlaces == ASSUME Init PROVE PlacesInv
<1>1. start \in [Docs -> Paths] /\ \A d, e \in Docs : start[d] = start[e] => d = e
  BY PlacesDiffer DEF Init
<1>2. \A p \in Present : p \in Paths /\ files[p] \in Docs /\ p = start[files[p]]
  <2> SUFFICES ASSUME NEW p \in Present
               PROVE  files[p] \in Docs /\ p = start[files[p]]
    BY DEF Present
  <2>1. p \in Paths /\ files[p] = Occupant(p) /\ Occupant(p) # NoDoc
    BY DEF Present, Init
  <2> QED
    BY <2>1, OccupantIs DEF Starting
<1>3. \A d \in Docs : Kept(d)
  BY <1>1, OccupantIs DEF Kept, Init
<1>4. OnePlace /\ MovedOnce
  BY <1>2 DEF OnePlace, MovedOnce, Init
<1>5. SetsTell
  BY <1>3 DEF SetsTell, Init
<1>6. AllAccounted
  BY <1>1, <1>3 DEF AllAccounted, Reported, Kept, Init
<1> QED
  BY <1>4, <1>5, <1>6 DEF PlacesInv

LEMMA MovePlaces ==
  ASSUME TypeOK, PlacesInv, NEW p \in Present, Move(p)
  PROVE  PlacesInv'
<1> USE DEF PlacesInv
<1> DEFINE d == files[p]
<1>1. PICK to \in Paths :
        /\ to # p /\ files[to] = NoDoc /\ <<to.dir, package[d]>> \in Fits
        /\ d \in Docs /\ p = start[d]
        /\ \A q \in Paths : files'[q] = IF q = to THEN d
                                        ELSE IF q = p THEN NoDoc ELSE files[q]
        /\ modified' = (modified \union {to}) \ {p}
        /\ deleted' = deleted \union {p}
  BY MoveEffect
<1>2. UNCHANGED <<input, conflicts>>
  BY DEF Move
<1>3. p \in Paths /\ d # NoDoc /\ start \in [Docs -> Paths]
      /\ \A e, f \in Docs : start[e] = start[f] => e = f
  BY <1>1, PlacesDiffer DEF Present, TypeOK, MovedOnce
<1> HIDE DEF d
<1>4. Present' = (Present \union {to}) \ {p}
  BY <1>1, <1>3 DEF Present
<1>5. \A q \in Present : q # p => files[q] # d
  BY <1>3 DEF OnePlace, d
<1>6. OnePlace'
  BY <1>1, <1>4, <1>5 DEF OnePlace, Present
<1>7. MovedOnce'
  BY <1>1, <1>2, <1>4 DEF MovedOnce, Present, input
<1>8. \A e \in Docs : Kept(e)' <=> Kept(e) /\ e # d
  BY LeavesAlone DEF d
<1>9. Kept(d)
  BY <1>1 DEF Kept, d
<1>10. SetsTell'
  <2>1. deleted' = {start[e] : e \in {f \in Docs : ~Kept(f)'}}
    BY <1>1, <1>8, <1>9 DEF SetsTell
  <2> QED
    BY <1>1, <1>2, <1>4, <2>1 DEF SetsTell, input
<1>11. AllAccounted'
  <2>1. \A e \in Docs : (\A q \in Paths : files'[q] # e) <=> (\A q \in Paths : files[q] # e)
    BY <1>1, <1>3, <1>5 DEF d
  <2>2. \A e \in Docs : Reported(e)' <=> Reported(e)
    BY <1>2 DEF Reported, conflicts, input
  <2> QED
    BY <2>1, <2>2 DEF AllAccounted
<1> QED
  BY <1>6, <1>7, <1>10, <1>11

LEMMA ConflictPlaces ==
  ASSUME TypeOK, PlacesInv, NEW p \in Present, Conflict(p)
  PROVE  PlacesInv'
<1> USE DEF PlacesInv
<1> DEFINE d == files[p]
<1>1. /\ d \in Docs /\ p = start[d]
      /\ \A q \in Paths : files'[q] = IF q = p THEN NoDoc ELSE files[q]
      /\ modified' = modified \ {p}
      /\ deleted' = deleted \union {p}
      /\ (manyToOne \union sourceFile)' = (manyToOne \union sourceFile) \union {<<Home(p), p>>}
  BY ConflictEffect
<1>2. UNCHANGED input
  BY DEF Conflict
<1>3. p \in Paths /\ d # NoDoc /\ start \in [Docs -> Paths]
      /\ \A e, f \in Docs : start[e] = start[f] => e = f
  BY <1>1, PlacesDiffer DEF Present, TypeOK, MovedOnce
<1> HIDE DEF d
<1>4. Present' = Present \ {p}
  BY <1>1, <1>3 DEF Present
<1>5. \A q \in Present : q # p => files[q] # d
  BY <1>3 DEF OnePlace, d
<1>6. OnePlace'
  BY <1>1, <1>4 DEF OnePlace, Present
<1>7. MovedOnce'
  BY <1>1, <1>2, <1>4 DEF MovedOnce, Present, input
<1>8. \A e \in Docs : Kept(e)' <=> Kept(e) /\ e # d
  BY LeavesAlone DEF d
<1>9. Kept(d)
  BY <1>1 DEF Kept, d
<1>10. SetsTell'
  <2>1. deleted' = {start[e] : e \in {f \in Docs : ~Kept(f)'}}
    BY <1>1, <1>8, <1>9 DEF SetsTell
  <2> QED
    BY <1>1, <1>2, <1>4, <2>1 DEF SetsTell, input
<1>11. AllAccounted'
  <2>1. \A e \in Docs : (\A q \in Paths : files'[q] # e) <=>
                           (\A q \in Paths : files[q] # e) \/ e = d
    BY <1>1, <1>3, <1>5, ValuesDiffer DEF d, Present
  <2>2. \A e \in Docs : Reported(e)' <=> Reported(e) \/ e = d
    <3> DEFINE listed == <<Home(p), p>>
    <3>1. listed[2] = p
      OBVIOUS
    <3> HIDE DEF listed
    <3>2. \A e \in Docs : Reported(e)' <=> Reported(e) \/ p = start[e]
      BY <1>1, <1>2, <3>1 DEF Reported, input, listed
    <3> QED
      BY <1>1, <1>3, <3>2
  <2> QED
    BY <2>1, <2>2 DEF AllAccounted
<1> QED
  BY <1>6, <1>7, <1>10, <1>11

\* The other actions move nothing.
LEMMA PlacesStep ==
  ASSUME TypeOK, PlacesInv, [Next]_vars
  PROVE  PlacesInv'
<1>1. CASE \E p \in Present : Move(p)
  BY <1>1, MovePlaces
<1>2. CASE \E p \in Present : Conflict(p)
  BY <1>2, ConflictPlaces
<1>3. CASE /\ UNCHANGED <<input, files, deleted, conflicts>>
           /\ modified \subseteq modified' /\ modified' \subseteq Present
  <2>1. Present' = Present /\ UNCHANGED <<package, start>>
    BY <1>3 DEF Present, input
  <2>2. OnePlace' /\ MovedOnce'
    BY <1>3, <2>1 DEF PlacesInv, OnePlace, MovedOnce
  <2>3. SetsTell'
    BY <1>3, <2>1 DEF PlacesInv, SetsTell, Kept
  <2>4. AllAccounted'
    BY <1>3, <2>1 DEF PlacesInv, AllAccounted, Reported, conflicts
  <2> QED
    BY <2>2, <2>3, <2>4 DEF PlacesInv
<1>4. ASSUME NEW p \in Present, NEW f \in TextFixes, Repair(p, f)
      PROVE  /\ UNCHANGED <<input, files, deleted, conflicts>>
             /\ modified \subseteq modified' /\ modified' \subseteq Present
  BY <1>4 DEF Repair, PlacesInv, SetsTell
<1>5. ASSUME \/ \E p \in todo : RemoveFile(p) \/ WriteFile(p)
             \/ Stop \/ Fail \/ FailOnDisk \/ BeginWrites \/ Finish \/ UNCHANGED vars
      PROVE  /\ UNCHANGED <<input, files, deleted, conflicts>>
             /\ modified \subseteq modified' /\ modified' \subseteq Present
  BY <1>5 DEF RemoveFile, WriteFile, Stop, Fail, FailOnDisk, BeginWrites, Finish, vars,
              provider, report, PlacesInv, SetsTell
<1> QED
  BY <1>1, <1>2, <1>3, <1>4, <1>5 DEF Next, Progress, FixOne

-----------------------------------------------------------------------------
(* What is on disk, and how the command ends.                               *)

\* A file that was not changed is at the path at which it was given, and that
\* path is not one of those to be removed.
LEMMA UnchangedStays ==
  ASSUME TypeOK, PlacesInv, NEW p \in Present \ modified
  PROVE  p \in Paths /\ p \notin deleted
<1>1. p \in Paths /\ files[p] \in Docs /\ p = start[files[p]]
  BY DEF Present, TypeOK, PlacesInv, MovedOnce
<1>2. \A d \in Docs : start[d] = p => d = files[p]
  BY <1>1, PlacesDiffer DEF PlacesInv, MovedOnce
<1> QED
  BY <1>1, <1>2 DEF PlacesInv, SetsTell, Kept

LEMMA InitDisk == ASSUME Init PROVE DiskLags
<1> SUFFICES ASSUME NEW p \in Present
             PROVE  OnDisk(p)
  BY DEF Init, DiskLags
<1>1. p \in Paths /\ files[p] = Occupant(p) /\ Occupant(p) # NoDoc
  BY DEF Init, Present
<1>2. p \in Starting /\ p \notin others
  BY <1>1, OccupantIs DEF Init
<1>3. disk[p] = <<Occupant(p), wrong[Occupant(p)]>>
  BY <1>1, <1>2 DEF Init
<1> QED
  BY <1>1, <1>3 DEF OnDisk

LEMMA LoopDisk ==
  ASSUME TypeOK, PlacesInv, DiskLags, NEW p \in Present,
         (\E f \in TextFixes : Repair(p, f)) \/ Move(p) \/ Conflict(p)
  PROVE  DiskLags'
<1> USE DEF PlacesInv
<1>1. phase = "fixing" /\ result = "none" /\ UNCHANGED <<disk, control>>
  BY DEF Repair, Move, Conflict, TypeOK, control
<1>2. SUFFICES ASSUME NEW q \in (Present \ modified)'
               PROVE  OnDisk(q)'
  BY <1>1 DEF DiskLags, control
<1>3. q \in Paths /\ files'[q] # NoDoc /\ q \notin modified'
  BY DEF Present
<1>4. files[q] = files'[q] /\ q \in Present \ modified
      /\ wrong'[files[q]] = wrong[files[q]]
  <2>1. CASE \E f \in TextFixes : Repair(p, f)
    <3>1. q \in Present \ modified /\ q # p /\ files' = files
      BY <1>3, <2>1 DEF Repair, Present
    <3>2. files[q] # files[p] /\ files[q] \in Docs
      BY <1>3, <3>1 DEF OnePlace, Present, TypeOK
    <3>3. wrong'[files[q]] = wrong[files[q]]
      BY <2>1, <3>2 DEF Repair, TypeOK
    <3> QED
      BY <3>1, <3>3
  <2>2. CASE Move(p)
    <3>1. PICK to \in Paths :
            /\ to # p
            /\ \A r \in Paths : files'[r] = IF r = to THEN files[p]
                                            ELSE IF r = p THEN NoDoc ELSE files[r]
            /\ modified' = (modified \union {to}) \ {p}
      BY <2>2, MoveEffect
    <3>2. q # to /\ q # p
      BY <1>3, <3>1
    <3> QED
      BY <1>3, <2>2, <3>1, <3>2 DEF Present, Move
  <2>3. CASE Conflict(p)
    BY <1>3, <2>3, ConflictEffect DEF Present, Conflict
  <2> QED
    BY <2>1, <2>2, <2>3
<1> QED
  BY <1>1, <1>4 DEF DiskLags, OnDisk

LEMMA RemoveDisk ==
  ASSUME TypeOK, PlacesInv, DiskLags, NEW p \in todo, RemoveFile(p)
  PROVE  DiskLags'
<1>1. /\ phase = "removing" /\ result = "none" /\ p \in deleted /\ p \in Paths
      /\ disk' = [disk EXCEPT ![p] = NoDoc] /\ todo' = todo \ {p}
      /\ UNCHANGED <<input, wrong, provider, control>>
  BY DEF RemoveFile, TypeOK, DiskLags
<1>2. \A q \in Paths : disk'[q] = IF q = p THEN NoDoc ELSE disk[q]
  BY <1>1 DEF TypeOK
<1>3. \A q \in Present \ modified : OnDisk(q)'
  BY <1>1, <1>2, UnchangedStays DEF DiskLags, OnDisk, provider
<1>4. \A q \in deleted \ todo' : disk'[q] = NoDoc
  BY <1>1, <1>2 DEF DiskLags, TypeOK
<1> QED
  BY <1>1, <1>3, <1>4 DEF DiskLags, provider, control, Present

LEMMA WriteDisk ==
  ASSUME TypeOK, PlacesInv, DiskLags, NEW p \in todo, WriteFile(p)
  PROVE  DiskLags'
<1>1. /\ phase = "writing" /\ result = "none" /\ p \in modified /\ p \in Paths /\ p \in Present
      /\ disk' = [disk EXCEPT ![p] = <<files[p], wrong[files[p]]>>] /\ todo' = todo \ {p}
      /\ UNCHANGED <<input, wrong, provider, control>>
  BY DEF WriteFile, TypeOK, DiskLags, Present
<1>2. \A q \in Paths : disk'[q] = IF q = p THEN <<files[p], wrong[files[p]]>> ELSE disk[q]
  BY <1>1 DEF TypeOK
<1>3. \A q \in Present \ todo' : OnDisk(q)'
  BY <1>1, <1>2 DEF DiskLags, OnDisk, provider, Present
<1>4. \A q \in deleted \ Present : disk'[q] = NoDoc
  BY <1>1, <1>2 DEF DiskLags, TypeOK
<1> QED
  BY <1>1, <1>3, <1>4 DEF DiskLags, provider, control, Present

LEMMA EndDisk ==
  ASSUME TypeOK, PlacesInv, DiskLags,
         Stop \/ Fail \/ FailOnDisk \/ BeginWrites \/ Finish \/ UNCHANGED vars
  PROVE  DiskLags'
<1> USE DEF input, provider, Present, OnDisk
<1>1. CASE Stop
  <2>1. UNCHANGED <<input, wrong, provider, disk>> /\ result = "none" /\ phase = "fixing"
    BY <1>1 DEF Stop, TypeOK
  <2>2. \A p \in Present \ modified : OnDisk(p)
    BY <2>1 DEF DiskLags
  <2>3. \/ phase' = "removing" /\ todo' = deleted /\ result' = "none"
        \/ phase' = "done" /\ result' = "conflicts"
        \/ phase' = "done" /\ result' = "ok" /\ dryRun
    BY <1>1, <2>1 DEF Stop, Leave
  <2> QED
    BY <2>1, <2>2, <2>3 DEF DiskLags
<1>2. CASE Fail
  BY <1>2 DEF Fail, DiskLags
<1>3. CASE FailOnDisk
  BY <1>3 DEF FailOnDisk, DiskLags
<1>4. CASE BeginWrites
  <2>1. /\ UNCHANGED <<input, wrong, provider, disk>> /\ result = "none" /\ phase = "removing"
        /\ phase' = "writing" /\ result' = "none" /\ todo = {} /\ todo' = modified
    BY <1>4 DEF BeginWrites, TypeOK
  <2>2. /\ \A p \in Present \ modified : OnDisk(p)
        /\ \A p \in deleted : disk[p] = NoDoc
    BY <2>1 DEF DiskLags
  <2> QED
    BY <2>1, <2>2 DEF DiskLags
<1>5. CASE Finish
  <2>1. /\ UNCHANGED <<input, wrong, provider, disk>> /\ phase = "writing"
        /\ phase' = "done" /\ todo = {}
    BY <1>5 DEF Finish, TypeOK
  <2>2. /\ \A p \in Present : OnDisk(p)
        /\ \A p \in deleted \ Present : disk[p] = NoDoc
    BY <2>1 DEF DiskLags
  <2> QED
    BY <2>1, <2>2 DEF DiskLags
<1>6. CASE UNCHANGED vars
  BY <1>6 DEF vars, control, DiskLags
<1> QED
  BY <1>1, <1>2, <1>3, <1>4, <1>5, <1>6

LEMMA DiskStep ==
  ASSUME TypeOK, PlacesInv, DiskLags, [Next]_vars
  PROVE  DiskLags'
  BY LoopDisk, RemoveDisk, WriteDisk, EndDisk DEF Next, Progress, FixOne

\* The command goes on to the disk if there are no conflicts, and ends with
\* conflicts when no file is left that the rule rejects.
LEMMA ConflictsStep ==
  ASSUME TypeOK, ConflictsEnd, [Next]_vars
  PROVE  ConflictsEnd'
<1> USE DEF HasConflicts, ConflictsEnd
<1>1. ASSUME NEW p \in Present, Move(p) \/ (\E f \in TextFixes : Repair(p, f))
      PROVE  ConflictsEnd'
  BY <1>1 DEF Move, Repair, TypeOK, input, control, conflicts
<1>2. ASSUME NEW p \in Present, Conflict(p)
      PROVE  ConflictsEnd'
  BY <1>2 DEF Conflict, TypeOK, input, control
<1>3. CASE Stop
  <2>1. Fixable(Mismatch)' = Fixable(Mismatch) /\ Fixable(Mismatch) = {}
    BY <1>3 DEF Stop, Fixes, Fixable, Violates, Present, input, provider
  <2> QED
    BY <1>3, <2>1 DEF Stop, Leave, TypeOK, input, report, conflicts
<1>4. CASE \/ \E p \in todo : RemoveFile(p) \/ WriteFile(p)
           \/ Fail \/ FailOnDisk \/ BeginWrites \/ Finish
  <2>1. /\ UNCHANGED <<input, report>> /\ result' # "conflicts"
        /\ phase' \in {"removing", "writing"} \/ result' = "ok" => phase \in {"removing", "writing"}
    BY <1>4 DEF RemoveFile, WriteFile, Fail, FailOnDisk, BeginWrites, Finish, TypeOK, control
  <2> QED
    BY <2>1 DEF input, report, conflicts
<1>5. CASE UNCHANGED vars
  <2>1. Fixable(Mismatch)' = Fixable(Mismatch)
    BY <1>5 DEF vars, input, provider, Fixable, Violates, Present
  <2> QED
    BY <1>5, <2>1 DEF vars, input, control, report, conflicts
<1> QED
  BY <1>1, <1>2, <1>3, <1>4, <1>5 DEF Next, Progress, FixOne

-----------------------------------------------------------------------------
(* What the report says.                                                    *)

LEMMA InitReport == ASSUME Init PROVE ConflictsEnd /\ ReportTells /\ ListsTell
<1>1. \A d \in Docs : Kept(d)
  BY InitPlaces, OccupantIs, PlacesDiffer DEF Init, Kept
<1>2. \A p \in Paths : files[p] # NoDoc =>
        files[p] \in Docs /\ start[files[p]] = p /\ applied[files[p]] = Nothing
  <2>1. \A p \in Paths : files[p] = Occupant(p)
    BY DEF Init
  <2> QED
    BY <2>1, OccupantIs DEF Init, Starting
<1>3. ReportTells
  BY <1>2 DEF ReportTells, Init
<1>4. \A p \in Paths : Listed(p) = {}
  BY DEF Init, Listed, Entries
<1> QED
  BY <1>1, <1>3, <1>4 DEF ListsTell, ConflictsEnd, HasConflicts, Init

\* A fix of a text is credited to the path and to the document.
LEMMA RepairReport ==
  ASSUME TypeOK, PlacesInv, ReportTells, NEW p \in Present, NEW f \in TextFixes, Repair(p, f)
  PROVE  ReportTells'
<1>1. /\ fileFixes' = Credit(fileFixes, p, f) /\ applied' = Credit(applied, files[p], f)
      /\ UNCHANGED <<files, start, movedFiles, conflicts>>
  BY DEF Repair, input, provider
<1>2. p \in Paths /\ files[p] \in Docs /\ f \in Fixes
  BY DEF Present, TypeOK, Fixes
<1>3. SUFFICES ASSUME ~HasConflicts, NEW q \in Paths
               PROVE  fileFixes'[q] = IF files[q] = NoDoc THEN Nothing ELSE applied'[files[q]]
  BY <1>1 DEF ReportTells, HasConflicts, conflicts
<1>4. CASE q = p
  BY <1>1, <1>2, <1>3, <1>4, ValuesDiffer DEF ReportTells, Credit, TypeOK
<1>5. CASE q # p
  <2>1. fileFixes'[q] = fileFixes[q]
    BY <1>1, <1>2, <1>5 DEF Credit, TypeOK
  <2>2. files[q] # NoDoc => applied'[files[q]] = applied[files[q]]
    <3>1. files[q] # NoDoc => files[q] \in Docs /\ files[q] # files[p]
      BY <1>5 DEF PlacesInv, OnePlace, Present, TypeOK
    <3> QED
      BY <1>1, <1>2, <3>1 DEF Credit, TypeOK
  <2> QED
    BY <1>3, <2>1, <2>2 DEF ReportTells
<1> QED
  BY <1>4, <1>5

\* A rename takes along what is credited to the old path.
LEMMA MoveReport ==
  ASSUME TypeOK, PlacesInv, ReportTells, NEW p \in Present, Move(p)
  PROVE  ReportTells'
<1> DEFINE d == files[p]
<1>1. PICK to \in Paths :
        /\ to # p /\ files[to] = NoDoc
        /\ d \in Docs /\ p = start[d]
        /\ \A q \in Paths : files'[q] = IF q = to THEN d
                                        ELSE IF q = p THEN NoDoc ELSE files[q]
        /\ ReportMove(p, to)
  BY MoveEffect DEF PlacesInv
<1>2. UNCHANGED <<start, conflicts>> /\ p \in Paths /\ d # NoDoc
  BY DEF Move, input, Present
<1>3. \A q \in Present : q # p => files[q] # d
  BY DEF PlacesInv, OnePlace, Present
<1> HIDE DEF d
<1>4. SUFFICES ASSUME ~HasConflicts, NEW q \in Paths
               PROVE  /\ fileFixes'[q] = IF files'[q] = NoDoc THEN Nothing ELSE applied'[files'[q]]
                      /\ movedFiles'[q] = IF files'[q] = NoDoc \/ start[files'[q]] = q THEN <<>>
                                          ELSE <<start[files'[q]]>>
  BY <1>2 DEF ReportTells, HasConflicts, conflicts
<1>5. /\ fileFixes[to] = Nothing /\ fileFixes[p] = applied[d]
      /\ movedFiles[to] = <<>> /\ movedFiles[p] = <<>>
  BY <1>1, <1>2, <1>4 DEF ReportTells, d
<1>6. /\ fileFixes' = Merged(p, to) /\ applied' = Credit(applied, d, Mismatch)
      /\ movedFiles' = [movedFiles EXCEPT ![to] = Append(@, p)]
  BY <1>1 DEF ReportMove, d
<1>7. CASE q = to
  <2>1. movedFiles'[q] = <<start[d]>>
    BY <1>1, <1>5, <1>6, <1>7 DEF TypeOK
  <2>2. fileFixes'[q] = [f \in Fixes |-> Nothing[f] + applied[d][f]
                                            + IF f = Mismatch THEN 1 ELSE 0]
    BY <1>1, <1>2, <1>5, <1>6, <1>7 DEF Merged, TypeOK
  <2>3. applied[d] \in [Fixes -> Nat] /\ applied'[d] = [applied[d] EXCEPT ![Mismatch] = @ + 1]
    BY <1>1, <1>6 DEF Credit, TypeOK
  <2>4. fileFixes'[q] = applied'[d]
    BY <2>2, <2>3 DEF Nothing
  <2> QED
    BY <1>1, <1>2, <1>7, <2>1, <2>4
<1>8. CASE q = p
  BY <1>1, <1>2, <1>5, <1>6, <1>8 DEF Merged, TypeOK
<1>9. CASE q # p /\ q # to
  <2>1. fileFixes'[q] = fileFixes[q] /\ movedFiles'[q] = movedFiles[q] /\ files'[q] = files[q]
    BY <1>1, <1>2, <1>6, <1>9 DEF Merged, TypeOK
  <2>2. files[q] # NoDoc => files[q] \in Docs /\ applied'[files[q]] = applied[files[q]]
    BY <1>1, <1>3, <1>6, <1>9 DEF Credit, Present, TypeOK
  <2> QED
    BY <1>2, <1>4, <2>1, <2>2 DEF ReportTells
<1> QED
  BY <1>7, <1>8, <1>9

LEMMA ReportStep ==
  ASSUME TypeOK, PlacesInv, ReportTells, [Next]_vars
  PROVE  ReportTells'
<1>1. CASE \E p \in Present : Move(p)
  BY <1>1, MoveReport
<1>2. CASE \E p \in Present, f \in TextFixes : Repair(p, f)
  BY <1>2, RepairReport
<1>3. ASSUME NEW p \in Present, Conflict(p)
      PROVE  ReportTells'
  <2>1. HasConflicts'
    BY <1>3 DEF Conflict, HasConflicts
  <2> QED
    BY <2>1 DEF ReportTells
<1>4. CASE \/ \E p \in todo : RemoveFile(p) \/ WriteFile(p)
           \/ Stop \/ Fail \/ FailOnDisk \/ BeginWrites \/ Finish \/ UNCHANGED vars
  <2>1. UNCHANGED <<input, provider, report>>
    BY <1>4 DEF RemoveFile, WriteFile, Stop, Fail, FailOnDisk, BeginWrites, Finish, vars
  <2> QED
    BY <2>1 DEF ReportTells, HasConflicts, input, provider, report, conflicts
<1> QED
  BY <1>1, <1>2, <1>3, <1>4 DEF Next, Progress, FixOne

LEMMA AppendListed ==
  ASSUME NEW S, NEW s \in Seq(S), NEW e \in S
  PROVE  Entries(Append(s, e)) = Entries(s) \union {e}
<1> DEFINE t == Append(s, e)
<1>1. /\ DOMAIN s = 1..Len(s) /\ DOMAIN t = 1..Len(s) + 1 /\ Len(s) \in Nat
      /\ t[Len(s) + 1] = e /\ \A i \in 1..Len(s) : t[i] = s[i]
  OBVIOUS
<1> HIDE DEF t
<1>2. {t[i] : i \in 1..Len(s) + 1} = {s[i] : i \in 1..Len(s)} \union {e}
  BY <1>1
<1> QED
  BY <1>1, <1>2 DEF t, Entries

\* Moved or in conflict, a document is listed where it belongs.
LEMMA LeaveLists ==
  ASSUME TypeOK, PlacesInv, ListsTell, NEW p \in Present, Move(p) \/ Conflict(p)
  PROVE  ListsTell'
<1> DEFINE d == files[p]
<1>1. /\ d \in Docs /\ p = start[d] /\ p \in Paths /\ Home(p) \in Paths
      /\ <<p.dir, package[d]>> \notin Fits
  BY MoveGoesAway DEF PlacesInv, Move, Conflict, Fixable, Violates
<1>2. Wanted(d) = Home(p)
  BY <1>1 DEF Wanted, Home, Paths
<1>3. /\ UNCHANGED input /\ \A e \in Docs : Kept(e)' <=> Kept(e) /\ e # d
  BY LeavesAlone DEF PlacesInv
<1>4. Kept(d)
  BY <1>1 DEF Kept
<1>5. \A c \in manyToOne' : c[1] \notin Starting'
  <2>1. Starting' = Starting
    BY <1>3 DEF input, Starting
  <2>2. CASE Move(p)
    BY <2>1, <2>2 DEF Move, conflicts, ListsTell
  <2>3. CASE Conflict(p)
    BY <2>1, <2>3 DEF Conflict, ListsTell
  <2> QED
    BY <2>2, <2>3
<1>6. ASSUME onConflict = "error", NEW q \in Paths
      PROVE  Listed(q)' = {start[e] : e \in {f \in Docs : ~Kept(f)' /\ Wanted(f) = q}}
  <2>1. movedFiles' = [movedFiles EXCEPT ![Home(p)] = Append(@, p)]
    <3>1. CASE Move(p)
      BY <1>6, <3>1, MoveEffect DEF PlacesInv, ReportMove
    <3>2. CASE Conflict(p)
      BY <3>2 DEF Conflict, ReportMove
    <3> QED
      BY <3>1, <3>2
  <2>2. Listed(q)' = Listed(q) \union IF q = Home(p) THEN {p} ELSE {}
    <3>1. movedFiles[q] \in Seq(Paths)
      BY DEF TypeOK
    <3>2. CASE q = Home(p)
      <4>1. movedFiles'[q] = Append(movedFiles[q], p)
        BY <2>1, <3>2 DEF TypeOK
      <4>2. Listed(q)' = Listed(q) \union {p}
        <5>1. Entries(Append(movedFiles[q], p)) = Entries(movedFiles[q]) \union {p}
          BY <1>1, <3>1, AppendListed
        <5>2. Listed(q)' = Entries(Append(movedFiles[q], p))
          BY <4>1 DEF Listed, Entries
        <5> QED
          BY <5>1, <5>2 DEF Listed
      <4> QED
        BY <3>2, <4>2
    <3>3. CASE q # Home(p)
      <4>1. movedFiles'[q] = movedFiles[q]
        BY <2>1, <3>3 DEF TypeOK
      <4> QED
        BY <3>3, <4>1 DEF Listed, Entries
    <3> QED
      BY <3>2, <3>3
  <2>3. Listed(q) = {start[e] : e \in {f \in Docs : ~Kept(f) /\ Wanted(f) = q}}
    BY <1>6 DEF ListsTell
  <2> HIDE DEF d
  <2> QED
    BY <1>1, <1>2, <1>3, <1>4, <2>2, <2>3
<1>7. \A e \in Docs : Wanted(e)' = Wanted(e)
  BY <1>3 DEF Wanted, input
<1> QED
  BY <1>3, <1>5, <1>6, <1>7 DEF ListsTell, input

LEMMA ListsStep ==
  ASSUME TypeOK, PlacesInv, ListsTell, [Next]_vars
  PROVE  ListsTell'
<1>1. CASE \E p \in Present : Move(p) \/ Conflict(p)
  BY <1>1, LeaveLists
<1>2. CASE ~ \E p \in Present : Move(p) \/ Conflict(p)
  <2>1. UNCHANGED <<input, files, movedFiles, conflicts>>
    BY <1>2 DEF Next, Progress, FixOne, Repair, RemoveFile, WriteFile, Stop, Fail, FailOnDisk,
                BeginWrites, Finish, vars, provider, report
  <2>2. Starting' = Starting /\ UNCHANGED <<onConflict, start, manyToOne>>
    BY <2>1 DEF Starting, input, conflicts
  <2>3. \A d \in Docs : Wanted(d)' = Wanted(d) /\ Kept(d)' = Kept(d)
    BY <2>1 DEF Wanted, Kept, input
  <2>4. \A p \in Paths : Listed(p)' = Listed(p)
    BY <2>1 DEF Listed, Entries
  <2> QED
    BY <2>2, <2>3, <2>4 DEF ListsTell
<1> QED
  BY <1>1, <1>2

-----------------------------------------------------------------------------

LEMMA InvInit == Init => TypeOK /\ FixerInv
  BY InitTypes, InitPlaces, InitDisk, InitReport DEF FixerInv, PlacesInv

LEMMA InvStep == TypeOK /\ FixerInv /\ [Next]_vars => (TypeOK /\ FixerInv)'
<1> SUFFICES ASSUME TypeOK, FixerInv, [Next]_vars
             PROVE  TypeOK' /\ FixerInv'
  OBVIOUS
<1>1. PlacesInv
  BY DEF FixerInv, PlacesInv
<1>2. TypeOK'
  BY <1>1, TypesStep DEF PlacesInv
<1>3. PlacesInv' /\ DiskLags'
  BY <1>1, PlacesStep, DiskStep DEF FixerInv
<1>4. ConflictsEnd' /\ ReportTells' /\ ListsTell'
  BY <1>1, ConflictsStep, ReportStep, ListsStep DEF FixerInv
<1> QED
  BY <1>2, <1>3, <1>4 DEF FixerInv, PlacesInv

(* What applyLinterFixes, handleRename and the writing to disk keep true.   *)
LEMMA FixerInvariant == Spec => [](TypeOK /\ FixerInv)
<1>1. Init => TypeOK /\ FixerInv
  BY InvInit
<1>2. (TypeOK /\ FixerInv) /\ [Next]_vars => (TypeOK /\ FixerInv)'
  BY InvStep
<1> QED
  BY <1>1, <1>2, PTL DEF Spec

(* Documents, paths and the report's maps keep their types, in every chain  *)
(* of renames; the command is over exactly if it has a result.              *)
THEOREM FixerTypes == Spec => []TypeOK
  BY FixerInvariant, PTL

(* The conflict policy: a document is at exactly one path, or has left the  *)
(* provider and is reported as in conflict (handleRename).                  *)
THEOREM FilesAccounted == Spec => []EveryFileIsAccountedFor
<1>1. TypeOK /\ FixerInv => EveryFileIsAccountedFor
  <2> SUFFICES ASSUME TypeOK, FixerInv, NEW d \in Docs
               PROVE  Cardinality({p \in Paths : files[p] = d}) = IF Reported(d) THEN 0 ELSE 1
    BY DEF EveryFileIsAccountedFor, Reported
  <2> DEFINE places == {p \in Paths : files[p] = d}
  <2>1. \A p, q \in places : p = q
    BY ValuesDiffer DEF FixerInv, OnePlace, Present
  <2>2. Reported(d) <=> places = {}
    BY DEF FixerInv, AllAccounted
  <2>3. CASE Reported(d)
    BY <2>2, <2>3, FS_EmptySet
  <2>4. CASE ~Reported(d)
    <3>1. PICK p \in places : TRUE
      BY <2>2, <2>4
    <3>2. places = {p}
      BY <2>1, <3>1
    <3> QED
      BY <2>4, <3>2, FS_Singleton
  <2> QED
    BY <2>3, <2>4
<1> QED
  BY <1>1, FixerInvariant, PTL

(* While files are fixed, the sets of modified and deleted files say what   *)
(* the disk lacks.                                                          *)
THEOREM SetsAreRight == Spec => []SetsTellDisk
<1>1. TypeOK /\ FixerInv => SetsTellDisk
  <2> SUFFICES ASSUME TypeOK, FixerInv, phase = "fixing"
               PROVE  /\ deleted \subseteq Starting
                      /\ modified \subseteq Present
                      /\ \A p \in Present \ modified : disk[p] = <<files[p], wrong[files[p]]>>
                      /\ Starting \ Present \subseteq deleted
    BY DEF SetsTellDisk
  <2>1. deleted \subseteq Starting /\ modified \subseteq Present
    BY DEF FixerInv, SetsTell, Starting
  <2>2. \A p \in Present \ modified : disk[p] = <<files[p], wrong[files[p]]>>
    BY DEF FixerInv, DiskLags, OnDisk
  <2>3. Starting \ Present \subseteq deleted
    BY ValuesDiffer DEF FixerInv, SetsTell, Kept, Starting, Present, TypeOK
  <2> QED
    BY <2>1, <2>2, <2>3
<1> QED
  BY <1>1, FixerInvariant, PTL

(* A command that succeeds leaves on disk what the provider holds.          *)
THEOREM DiskIsRight == Spec => []DiskIsAsFixed
<1>1. TypeOK /\ FixerInv => DiskIsAsFixed
  <2> SUFFICES ASSUME TypeOK, FixerInv, result = "ok", ~dryRun
               PROVE  /\ \A p \in Present : disk[p] = <<files[p], wrong[files[p]]>>
                      /\ \A p \in Starting \ Present : disk[p] = NoDoc
    BY DEF DiskIsAsFixed
  <2>1. \A p \in Present : disk[p] = <<files[p], wrong[files[p]]>>
    BY DEF FixerInv, DiskLags, OnDisk
  <2>2. Starting \ Present \subseteq deleted
    BY ValuesDiffer DEF FixerInv, SetsTell, Kept, Starting, Present, TypeOK
  <2>3. \A p \in deleted \ Present : disk[p] = NoDoc
    BY DEF FixerInv, DiskLags
  <2> QED
    BY <2>1, <2>2, <2>3
<1> QED
  BY <1>1, FixerInvariant, PTL

(* The report credits each file with the fixes it got under all its names.  *)
THEOREM ReportIsRight == Spec => []ReportIsTrue
<1>1. TypeOK /\ FixerInv => ReportIsTrue
  <2> SUFFICES ASSUME TypeOK, FixerInv, result = "ok", NEW p \in Paths
               PROVE  IF files[p] = NoDoc THEN fileFixes[p] = Nothing
                      ELSE /\ fileFixes[p] = applied[files[p]]
                           /\ start[files[p]] = IF movedFiles[p] = <<>> THEN p
                                                ELSE movedFiles[p][1]
    BY DEF ReportIsTrue
  <2>1. /\ fileFixes[p] = IF files[p] = NoDoc THEN Nothing ELSE applied[files[p]]
        /\ movedFiles[p] = IF files[p] = NoDoc \/ start[files[p]] = p THEN <<>>
                           ELSE <<start[files[p]]>>
    BY DEF FixerInv, ConflictsEnd, ReportTells
  <2>2. \A x : <<x>> # <<>> /\ <<x>>[1] = x
    OBVIOUS
  <2> QED
    BY <2>1, <2>2
<1> QED
  BY <1>1, FixerInvariant, PTL

(* The paths listed for a conflict are those of all the files that belong   *)
(* at that place.                                                           *)
THEOREM ConflictsListed == Spec => []ConflictsAreComplete
<1>1. TypeOK /\ FixerInv => ConflictsAreComplete
  <2> SUFFICES ASSUME TypeOK, FixerInv, result = "conflicts", NEW c \in manyToOne
               PROVE  Listed(c[1]) = {start[d] : d \in {e \in Docs : Wanted(e) = c[1]}}
    BY DEF ConflictsAreComplete, Listed, Entries
  <2>1. c[1] \in Paths /\ c[1] \notin Starting /\ onConflict = "error"
    BY DEF TypeOK, FixerInv, ListsTell, ConflictsEnd, HasConflicts
  <2>2. Listed(c[1]) = {start[d] : d \in {e \in Docs : ~Kept(e) /\ Wanted(e) = c[1]}}
    BY <2>1 DEF FixerInv, ListsTell
  <2>3. ASSUME NEW e \in Docs, Wanted(e) = c[1]
        PROVE  ~Kept(e)
    <3>1. <<start[e].dir, package[e]>> \notin Fits
      BY <2>1, <2>3 DEF Wanted, Starting
    <3>2. Fixable(Mismatch) = {}
      BY DEF FixerInv, ConflictsEnd
    <3>3. Kept(e) => start[e] \in Fixable(Mismatch)
      BY <3>1, MovesAreMade, ValuesDiffer DEF Kept, Fixable, Violates, Present, TypeOK
    <3> QED
      BY <3>2, <3>3
  <2> QED
    BY <2>2, <2>3
<1> QED
  BY <1>1, FixerInvariant, PTL
====
