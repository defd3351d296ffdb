------------------------ MODULE DocumentCacheProofs ------------------------
(* Proofs about DocumentCache, for any files, texts and goroutines: its     *)
(* types; that the editor ends up with what the cache says when handlers    *)
(* overlap; that everything derived from a document follows its text when   *)
(* they do not; and that files then are in the part of the cache they       *)
(* belong to, with the text the editor sent.                                *)
EXTENDS DocumentCache, TLAPS

CacheTypes == [contents : [Files -> MaybeText],
               ignored  : [Files -> MaybeText],
               modules  : [Files -> Good \union {Nothing}],
               diags    : [Files -> Good \union {Nothing}],
               errors   : [Files -> Bad \union {Clean, Nothing}],
               lines    : [Files -> Good \union {Nothing}]]
StoreTypes == [parsed : [Files -> Good \union {Nothing}],
               refs   : [Files -> Good \union {Nothing}]]
TaskTypes == [op   : AllOps \union {"none", "loaded", "template", "moved", "lint"},
              file : Files \union {Nothing},
              dest : Files \union {Nothing},
              text : MaybeText,
              diag : MaybeText,
              todo : SUBSET Files,
              copy : [Files -> MaybeText]]

MapsOK == cache \in CacheTypes /\ store \in StoreTypes

WorldOK ==
  /\ ignoring \in SUBSET Files /\ templating \in SUBSET Files /\ templates \in SUBSET Files
  /\ disk \in [Files -> MaybeText] /\ editor \in [Files -> MaybeText]
  /\ client \in [Files -> MaybeText]
  /\ owed \in BOOLEAN /\ failed \in BOOLEAN
  /\ starts \in 0..MaxStarts /\ writes \in 0..MaxWrites

\* Where a goroutine need not have a file in hand.
FileLess == {"idle", "move", "restore", "restoring", "request",
             "lint", "lintCheck", "lintFiles", "lintSend"}

\* What a goroutine has in hand, x, fits the next thing it does, at l.
FitsAt(l, x) ==
  /\ l \notin FileLess => x.file \in Files
  /\ x.op \in {"create", "rename", "template", "moved"} => x.file \in Files
  /\ x.op = "rename" \/ l = "tmplSet" => x.dest \in Files
  /\ l = "target" => x.op = "rename"
  /\ l = "errors" => x.text \in Texts
  /\ l \in {"module", "lines", "putMod", "putRefs"} => x.text \in Good
  /\ l \in {"lint", "lintCheck", "lintStore"} => x.copy \in [Files -> Good \union {Nothing}]

TypeInv ==
  /\ MapsOK
  /\ WorldOK
  /\ pc \in [Goroutines -> Labels] /\ task \in [Goroutines -> TaskTypes]
  /\ \A g \in Goroutines : FitsAt(pc[g], task[g])

\* g goes on with something that fits.
Moves(g) ==
  \E l \in Labels, x \in TaskTypes :
    /\ FitsAt(l, x)
    /\ pc' = [pc EXCEPT ![g] = l]
    /\ task' = [task EXCEPT ![g] = x]

\* A move to something that fits keeps the types, if the maps keep theirs.
LEMMA MoveKeepsTypes ==
  ASSUME TypeInv, NEW g \in Goroutines, Moves(g), MapsOK', WorldOK'
  PROVE  TypeInv'
<1>1. PICK l \in Labels, x \in TaskTypes :
        /\ FitsAt(l, x)
        /\ pc' = [pc EXCEPT ![g] = l]
        /\ task' = [task EXCEPT ![g] = x]
  BY DEF Moves
<1>2. pc' \in [Goroutines -> Labels] /\ task' \in [Goroutines -> TaskTypes]
  BY <1>1 DEF TypeInv
<1>3. \A h \in Goroutines : FitsAt(pc[h], task[h])'
  <2> SUFFICES ASSUME NEW h \in Goroutines
               PROVE  FitsAt(pc'[h], task'[h])
    BY DEF FitsAt
  <2>1. CASE h = g
    BY <1>1, <2>1 DEF TypeInv
  <2>2. CASE h # g
    <3>1. pc'[h] = pc[h] /\ task'[h] = task[h]
      BY <1>1, <2>2 DEF TypeInv
    <3> QED
      BY <3>1 DEF TypeInv
  <2> QED
    BY <2>1, <2>2
<1> QED
  BY <1>2, <1>3 DEF TypeInv

\* The same, said of what g goes on with.
GoesAs(g) ==
  /\ pc' = [pc EXCEPT ![g] = pc'[g]] /\ task' = [task EXCEPT ![g] = task'[g]]
  /\ pc'[g] \in Labels /\ task'[g] \in TaskTypes
  /\ FitsAt(pc'[g], task'[g])

\* A goroutine that goes on as GoesAs says takes a move that fits.
LEMMA GoesAsMoves ==
  ASSUME NEW g \in Goroutines, GoesAs(g)
  PROVE  Moves(g)
BY DEF GoesAs, Moves

\* g goes on, at one of the labels, with a file it had still to do, and its text.
Takes(g, f, labels) ==
  /\ f \in Files /\ pc'[g] \in labels
  /\ task'[g] = [task[g] EXCEPT !.file = f, !.todo = task[g].todo \ {f}]

TakesText(g, f, t, labels) ==
  /\ f \in Files /\ pc'[g] \in labels /\ t \in MaybeText
  /\ task'[g] = [task[g] EXCEPT !.file = f, !.todo = task[g].todo \ {f}, !.text = t]

\* Tasks as they are begun.
LEMMA NoTaskFits == NoTask \in TaskTypes /\ FitsAt("idle", NoTask)
BY DEF NoTask, TaskTypes, FitsAt, FileLess, EveryFile, MaybeText

\* A template job.
LEMMA JobIsATask ==
  ASSUME NEW f \in Files
  PROVE  LET x == [NoTask EXCEPT !.op = "template", !.file = f, !.dest = f]
         IN x \in TaskTypes /\ x.op = "template" /\ x.file = f
BY NoTaskFits DEF TaskTypes

\* A config to load, with the files to look at.
LEMMA ReloadIsATask ==
  ASSUME NEW S \in SUBSET Files
  PROVE  LET x == [NoTask EXCEPT !.op = "reload", !.todo = S]
         IN x \in TaskTypes /\ x.op = "reload"
BY NoTaskFits DEF TaskTypes, AllOps

\* A config that is dropped.
LEMMA DropIsATask ==
  LET x == [NoTask EXCEPT !.op = "drop"] IN x \in TaskTypes /\ x.op = "drop"
BY NoTaskFits DEF TaskTypes, AllOps

\* A lint run, with the modules it copied and the files to lint.
LEMMA RunIsATask ==
  ASSUME NEW S \in SUBSET Files, NEW c \in [Files -> MaybeText]
  PROVE  LET x == [NoTask EXCEPT !.op = "lint", !.copy = c, !.todo = S]
         IN x \in TaskTypes /\ x.op = "lint" /\ x.copy = c /\ x.todo = S
BY NoTaskFits DEF TaskTypes

\* g goes on with the same task, or has none any more.
LEMMA GoesOn ==
  ASSUME TypeInv, NEW g \in Goroutines
  PROVE  /\ Finish(g) => Moves(g)
         /\ \A l \in Labels : Goto(g, l) /\ UNCHANGED task /\ FitsAt(l, task[g]) => Moves(g)
<1>1. task[g] \in TaskTypes /\ task = [task EXCEPT ![g] = task[g]]
  BY DEF TypeInv
<1>2. "idle" \in Labels
  BY DEF Labels
<1> QED
  BY <1>1, <1>2, NoTaskFits DEF Finish, Goto, Moves

\* A step that only moves on leaves the maps as they are.
LEMMA LocalStepKeeps ==
  ASSUME TypeInv, LocalStep
  PROVE  MapsOK' /\ WorldOK'
  BY DEF LocalStep, config, outside, runs, TypeInv, MapsOK, WorldOK

\* The steps of messages.
LEMMA MessageKeepsTypes ==
  ASSUME TypeInv, NEW g \in Goroutines, MessageStep(g)
  PROVE  TypeInv'
<1>1. pc[g] \in Labels /\ task[g] \in TaskTypes /\ FitsAt(pc[g], task[g])
  BY DEF TypeInv
<1>2. cache \in CacheTypes /\ store \in StoreTypes
  BY DEF TypeInv, MapsOK
<1>3. CASE Decide(g)
  <2>1. MapsOK' /\ WorldOK'
    BY <1>3, LocalStepKeeps DEF Decide
  <2>2. Finish(g) \/ \E l \in Labels : Goto(g, l) /\ UNCHANGED task /\ FitsAt(l, task[g])
    BY <1>1, <1>3 DEF Decide, FitsAt, FileLess, Labels
  <2> QED
    BY <2>1, <2>2, GoesOn, MoveKeepsTypes
<1>4. CASE SetIgnored(g)
  <2>1. MapsOK' /\ WorldOK'
    BY <1>1, <1>2, <1>4 DEF SetIgnored, MapsOK, WorldOK, TypeInv, CacheTypes,
       StoreTypes, TaskTypes, FitsAt, FileLess, MaybeText, config, outside,
       runs
  <2>2. Finish(g) \/ \E l \in Labels : Goto(g, l) /\ UNCHANGED task /\ FitsAt(l, task[g])
    BY <1>1, <1>4 DEF SetIgnored, FitsAt, FileLess, Labels
  <2> QED
    BY <2>1, <2>2, GoesOn, MoveKeepsTypes
<1>5. CASE CheckTemplating(g)
  <2>1. MapsOK' /\ WorldOK'
    BY <1>5, LocalStepKeeps DEF CheckTemplating
  <2>2. Finish(g) \/ \E l \in Labels : Goto(g, l) /\ UNCHANGED task /\ FitsAt(l, task[g])
    BY <1>1, <1>5 DEF CheckTemplating, FitsAt, FileLess, Labels
  <2> QED
    BY <2>1, <2>2, GoesOn, MoveKeepsTypes
<1>6. CASE SetContents(g)
  <2>1. MapsOK' /\ WorldOK'
    BY <1>1, <1>2, <1>6, TextsAreDistinct DEF SetContents, CacheStep, MapsOK,
       WorldOK, TypeInv, CacheTypes, TaskTypes, FitsAt, FileLess, MaybeText,
       Texts, config, outside, runs
  <2>2. \E l \in Labels : Goto(g, l) /\ UNCHANGED task /\ FitsAt(l, task[g])
    BY <1>1, <1>6 DEF SetContents, CacheStep, FitsAt, FileLess, Labels
  <2> QED
    BY <2>1, <2>2, GoesOn, MoveKeepsTypes
<1>7. CASE RequestLint(g)
  <2>1. MapsOK' /\ WorldOK'
    BY <1>1, <1>2, <1>7 DEF RequestLint, MapsOK, WorldOK, TypeInv, CacheTypes,
       StoreTypes, TaskTypes, FitsAt, FileLess, MaybeText, config, outside,
       runs
  <2>2. Finish(g) \/ \E l \in Labels : Goto(g, l) /\ UNCHANGED task /\ FitsAt(l, task[g])
    BY <1>1, <1>7 DEF RequestLint, FitsAt, FileLess, Labels
  <2> QED
    BY <2>1, <2>2, GoesOn, MoveKeepsTypes
<1>8. CASE RequestTemplate(g)
  <2>1. MapsOK' /\ WorldOK'
    BY <1>1, <1>2, <1>8 DEF RequestTemplate, MapsOK, WorldOK, TypeInv,
       CacheTypes, StoreTypes, TaskTypes, FitsAt, FileLess, MaybeText, config,
       outside, runs
  <2>2. Finish(g) \/ \E l \in Labels : Goto(g, l) /\ UNCHANGED task /\ FitsAt(l, task[g])
    BY <1>1, <1>8 DEF RequestTemplate, FitsAt, FileLess, Labels
  <2> QED
    BY <2>1, <2>2, GoesOn, MoveKeepsTypes
<1> QED
  BY <1>3, <1>4, <1>5, <1>6, <1>7, <1>8 DEF MessageStep

\* The steps of updateParse.
LEMMA ParseKeepsTypes ==
  ASSUME TypeInv, NEW g \in Goroutines, ParseStep(g)
  PROVE  TypeInv'
<1>1. pc[g] \in Labels /\ task[g] \in TaskTypes /\ FitsAt(pc[g], task[g])
  BY DEF TypeInv
<1>2. cache \in CacheTypes /\ store \in StoreTypes
  BY DEF TypeInv, MapsOK
<1>3. CASE ParseRead(g)
  <2>1. MapsOK' /\ WorldOK'
    BY <1>3, LocalStepKeeps DEF ParseRead
  <2>2. Finish(g) \/ GoesAs(g)
    <3> SUFFICES ASSUME ~Finish(g)
                 PROVE  GoesAs(g)
      OBVIOUS
    <3>1. /\ pc' = [pc EXCEPT ![g] = pc'[g]] /\ task' = [task EXCEPT ![g] = task'[g]]
          /\ pc'[g] \in Labels
      BY <1>1, <1>3 DEF ParseRead, Goto, Labels, TypeInv
    <3>2. task'[g] \in TaskTypes
      BY <1>1, <1>2, <1>3 DEF ParseRead, Goto, TaskTypes, CacheTypes,
         MaybeText, Texts, FitsAt, FileLess, TypeInv, WorldOK
    <3>3. FitsAt(pc'[g], task'[g])
      BY <1>1, <1>2, <1>3 DEF ParseRead, Goto, FitsAt, FileLess, Labels,
         TaskTypes, CacheTypes, MaybeText, Texts, TypeInv, WorldOK
    <3> QED
      BY <3>1, <3>2, <3>3 DEF GoesAs
  <2> QED
    BY <2>1, <2>2, GoesOn, GoesAsMoves, MoveKeepsTypes
<1>4. CASE SetParseErrors(g)
  <2>1. MapsOK' /\ WorldOK'
    BY <1>1, <1>2, <1>4, TextsAreDistinct DEF SetParseErrors, CacheStep,
       MapsOK, WorldOK, TypeInv, CacheTypes, TaskTypes, FitsAt, FileLess,
       MaybeText, Texts, config, outside, runs
  <2>2. \E l \in Labels : Goto(g, l) /\ UNCHANGED task /\ FitsAt(l, task[g])
    BY <1>1, <1>4 DEF SetParseErrors, CacheStep, FitsAt, FileLess, Labels,
       Texts
  <2> QED
    BY <2>1, <2>2, GoesOn, MoveKeepsTypes
<1>5. CASE SetModule(g)
  <2>1. MapsOK' /\ WorldOK'
    BY <1>1, <1>2, <1>5, TextsAreDistinct DEF SetModule, CacheStep, MapsOK,
       WorldOK, TypeInv, CacheTypes, TaskTypes, FitsAt, FileLess, MaybeText,
       Texts, config, outside, runs
  <2>2. \E l \in Labels : Goto(g, l) /\ UNCHANGED task /\ FitsAt(l, task[g])
    BY <1>1, <1>5 DEF SetModule, CacheStep, FitsAt, FileLess, Labels
  <2> QED
    BY <2>1, <2>2, GoesOn, MoveKeepsTypes
<1>6. CASE SetLineCount(g)
  <2>1. MapsOK' /\ WorldOK'
    BY <1>1, <1>2, <1>6, TextsAreDistinct DEF SetLineCount, CacheStep, MapsOK,
       WorldOK, TypeInv, CacheTypes, TaskTypes, FitsAt, FileLess, MaybeText,
       Texts, config, outside, runs
  <2>2. \E l \in Labels : Goto(g, l) /\ UNCHANGED task /\ FitsAt(l, task[g])
    BY <1>1, <1>6 DEF SetLineCount, CacheStep, FitsAt, FileLess, Labels
  <2> QED
    BY <2>1, <2>2, GoesOn, MoveKeepsTypes
<1>7. CASE PutFileMod(g)
  <2>1. MapsOK' /\ WorldOK'
    BY <1>1, <1>2, <1>7 DEF PutFileMod, MapsOK, WorldOK, TypeInv, CacheTypes,
       StoreTypes, TaskTypes, FitsAt, FileLess, MaybeText, config, outside,
       runs
  <2>2. Finish(g) \/ \E l \in Labels : Goto(g, l) /\ UNCHANGED task /\ FitsAt(l, task[g])
    BY <1>1, <1>7 DEF PutFileMod, FitsAt, FileLess, Labels
  <2> QED
    BY <2>1, <2>2, GoesOn, MoveKeepsTypes
<1>8. CASE PutFileRefs(g)
  <2>1. MapsOK' /\ WorldOK'
    BY <1>1, <1>2, <1>8 DEF PutFileRefs, MapsOK, WorldOK, TypeInv, CacheTypes,
       StoreTypes, TaskTypes, FitsAt, FileLess, MaybeText, config, outside,
       runs
  <2>2. Finish(g) \/ \E l \in Labels : Goto(g, l) /\ UNCHANGED task /\ FitsAt(l, task[g])
    BY <1>1, <1>8 DEF PutFileRefs, FitsAt, FileLess, Labels
  <2> QED
    BY <2>1, <2>2, GoesOn, MoveKeepsTypes
<1>9. CASE AfterParse(g)
  <2>1. MapsOK' /\ WorldOK'
    BY <1>9, LocalStepKeeps DEF AfterParse
  <2>2. \/ Finish(g)
        \/ \E l \in Labels : Goto(g, l) /\ UNCHANGED task /\ FitsAt(l, task[g])
        \/ Goto(g, "parse") /\ task' = [task EXCEPT ![g].op = "loaded"]
    BY <1>1, <1>9 DEF AfterParse, FitsAt, FileLess, Labels
  <2>3. CASE Goto(g, "parse") /\ task' = [task EXCEPT ![g].op = "loaded"]
    <3>1. task'[g] = [task[g] EXCEPT !.op = "loaded"] /\ task' = [task EXCEPT ![g] = task'[g]]
      BY <1>1, <2>3 DEF TypeInv
    <3>2. pc' = [pc EXCEPT ![g] = pc'[g]] /\ pc'[g] \in {"parse"}
      BY <1>1, <2>3 DEF Goto, TypeInv
    <3>3. task'[g] \in TaskTypes
      BY <1>1, <3>1 DEF TaskTypes, MaybeText, Texts, AllOps
    <3>4. pc'[g] \in Labels /\ FitsAt(pc'[g], task'[g])
      BY <1>1, <1>9, <3>1, <3>2 DEF AfterParse, FitsAt, FileLess, TaskTypes,
         Labels
    <3> QED
      BY <2>1, <3>1, <3>2, <3>3, <3>4, GoesAsMoves, MoveKeepsTypes DEF GoesAs
  <2> QED
    BY <2>1, <2>2, <2>3, GoesOn, MoveKeepsTypes
<1> QED
  BY <1>3, <1>4, <1>5, <1>6, <1>7, <1>8, <1>9 DEF ParseStep

\* The steps that look at the disk.
LEMMA DiskKeepsTypes ==
  ASSUME TypeInv, NEW g \in Goroutines, DiskStep(g)
  PROVE  TypeInv'
<1>1. pc[g] \in Labels /\ task[g] \in TaskTypes /\ FitsAt(pc[g], task[g])
  BY DEF TypeInv
<1>2. cache \in CacheTypes /\ store \in StoreTypes
  BY DEF TypeInv, MapsOK
<1>3. CASE CheckHasContents(g)
  <2>1. MapsOK' /\ WorldOK'
    BY <1>3, LocalStepKeeps DEF CheckHasContents
  <2>2. Finish(g) \/ \E l \in Labels : Goto(g, l) /\ UNCHANGED task /\ FitsAt(l, task[g])
    BY <1>1, <1>3 DEF CheckHasContents, FitsAt, FileLess, Labels
  <2> QED
    BY <2>1, <2>2, GoesOn, MoveKeepsTypes
<1>4. CASE ReadDisk(g)
  <2>0. disk[Target(g)] \in MaybeText
    <3>1. Target(g) \in Files
      BY <1>1, <1>4 DEF ReadDisk, Target, FitsAt, FileLess
    <3> QED
      BY <3>1 DEF TypeInv, WorldOK
  <2>1. MapsOK' /\ WorldOK'
    BY <1>4, LocalStepKeeps DEF ReadDisk
  <2>2. \/ Finish(g)
        \/ \E l \in Labels : Goto(g, l) /\ UNCHANGED task /\ FitsAt(l, task[g])
        \/ Goto(g, "compare") /\ task' = [task EXCEPT ![g].text = disk[Target(g)]]
    BY <1>1, <1>4 DEF ReadDisk, FitsAt, FileLess, Labels
  <2>3. CASE Goto(g, "compare") /\ task' = [task EXCEPT ![g].text = disk[Target(g)]]
    <3>1. task'[g] = [task[g] EXCEPT !.text = disk[Target(g)]] /\ task' = [task EXCEPT ![g] = task'[g]]
      BY <1>1, <2>3 DEF TypeInv
    <3>2. pc' = [pc EXCEPT ![g] = pc'[g]] /\ pc'[g] \in {"compare"}
      BY <1>1, <2>3 DEF Goto, TypeInv
    <3>3. task'[g] \in TaskTypes
      BY <1>1, <3>1, <2>0 DEF TaskTypes, MaybeText, Texts, AllOps
    <3>4. pc'[g] \in Labels /\ FitsAt(pc'[g], task'[g])
      BY <1>1, <1>4, <3>1, <3>2, <2>0 DEF ReadDisk, FitsAt, FileLess,
         TaskTypes, Labels
    <3> QED
      BY <2>1, <3>1, <3>2, <3>3, <3>4, GoesAsMoves, MoveKeepsTypes DEF GoesAs
  <2> QED
    BY <2>1, <2>2, <2>3, GoesOn, MoveKeepsTypes
<1>5. CASE CompareContents(g)
  <2>1. MapsOK' /\ WorldOK'
    BY <1>5, LocalStepKeeps DEF CompareContents
  <2>2. Finish(g) \/ \E l \in Labels : Goto(g, l) /\ UNCHANGED task /\ FitsAt(l, task[g])
    BY <1>1, <1>5 DEF CompareContents, FitsAt, FileLess, Labels, AfterUpdate
  <2> QED
    BY <2>1, <2>2, GoesOn, MoveKeepsTypes
<1>6. CASE WriteFromDisk(g)
  <2>1. MapsOK' /\ WorldOK'
    BY <1>1, <1>2, <1>6, TextsAreDistinct DEF WriteFromDisk, CacheStep,
       MapsOK, WorldOK, TypeInv, CacheTypes, TaskTypes, FitsAt, FileLess,
       MaybeText, Texts, config, outside, runs, Target
  <2>2. \E l \in Labels : Goto(g, l) /\ UNCHANGED task /\ FitsAt(l, task[g])
    BY <1>1, <1>6 DEF WriteFromDisk, CacheStep, FitsAt, FileLess, Labels,
       AfterUpdate
  <2> QED
    BY <2>1, <2>2, GoesOn, MoveKeepsTypes
<1>7. CASE Stat(g)
  <2>1. MapsOK' /\ WorldOK'
    BY <1>7, LocalStepKeeps DEF Stat
  <2>2. Finish(g) \/ \E l \in Labels : Goto(g, l) /\ UNCHANGED task /\ FitsAt(l, task[g])
    BY <1>1, <1>7 DEF Stat, FitsAt, FileLess, Labels
  <2> QED
    BY <2>1, <2>2, GoesOn, MoveKeepsTypes
<1>8. CASE RenameRead(g)
  <2>1. MapsOK' /\ WorldOK'
    BY <1>8, LocalStepKeeps DEF RenameRead
  <2>2. Finish(g) \/ GoesAs(g)
    <3> SUFFICES ASSUME ~Finish(g)
                 PROVE  GoesAs(g)
      OBVIOUS
    <3>1. /\ pc' = [pc EXCEPT ![g] = pc'[g]] /\ task' = [task EXCEPT ![g] = task'[g]]
          /\ pc'[g] \in Labels
      BY <1>1, <1>8 DEF RenameRead, Goto, Labels, TypeInv
    <3>2. task'[g] \in TaskTypes
      BY <1>1, <1>2, <1>8 DEF RenameRead, Goto, TaskTypes, CacheTypes,
         MaybeText, Texts, FitsAt, FileLess, TypeInv, WorldOK
    <3>3. FitsAt(pc'[g], task'[g])
      BY <1>1, <1>2, <1>8 DEF RenameRead, Goto, FitsAt, FileLess, Labels,
         TaskTypes, CacheTypes, MaybeText, Texts, TypeInv, WorldOK
    <3> QED
      BY <3>1, <3>2, <3>3 DEF GoesAs
  <2> QED
    BY <2>1, <2>2, GoesOn, GoesAsMoves, MoveKeepsTypes
<1>9. CASE RenameTarget(g)
  <2>1. MapsOK' /\ WorldOK'
    BY <1>9, LocalStepKeeps DEF RenameTarget
  <2>2. \/ Finish(g)
        \/ \E l \in Labels : Goto(g, l) /\ UNCHANGED task /\ FitsAt(l, task[g])
        \/ Goto(g, "set") /\ task' = [task EXCEPT ![g].file = task[g].dest]
    BY <1>1, <1>9 DEF RenameTarget, FitsAt, FileLess, Labels
  <2>3. CASE Goto(g, "set") /\ task' = [task EXCEPT ![g].file = task[g].dest]
    <3>1. task'[g] = [task[g] EXCEPT !.file = task[g].dest] /\ task' = [task EXCEPT ![g] = task'[g]]
      BY <1>1, <2>3 DEF TypeInv
    <3>2. pc' = [pc EXCEPT ![g] = pc'[g]] /\ pc'[g] \in {"set"}
      BY <1>1, <2>3 DEF Goto, TypeInv
    <3>3. task'[g] \in TaskTypes
      BY <1>1, <3>1, <1>9 DEF TaskTypes, MaybeText, Texts, AllOps, FitsAt,
         RenameTarget
    <3>4. pc'[g] \in Labels /\ FitsAt(pc'[g], task'[g])
      BY <1>1, <1>9, <3>1, <3>2, <1>9 DEF RenameTarget, FitsAt, FileLess,
         TaskTypes, Labels
    <3> QED
      BY <2>1, <3>1, <3>2, <3>3, <3>4, GoesAsMoves, MoveKeepsTypes DEF GoesAs
  <2> QED
    BY <2>1, <2>2, <2>3, GoesOn, MoveKeepsTypes
<1> QED
  BY <1>3, <1>4, <1>5, <1>6, <1>7, <1>8, <1>9 DEF DiskStep

\* The steps of cache.Delete.
LEMMA DeleteKeepsTypes ==
  ASSUME TypeInv, NEW g \in Goroutines, DeleteStep(g)
  PROVE  TypeInv'
<1>1. pc[g] \in Labels /\ task[g] \in TaskTypes /\ FitsAt(pc[g], task[g])
  BY DEF TypeInv
<1>2. cache \in CacheTypes /\ store \in StoreTypes
  BY DEF TypeInv, MapsOK
<1>3. CASE DeleteContents(g)
  <2>1. MapsOK' /\ WorldOK'
    BY <1>1, <1>2, <1>3, TextsAreDistinct DEF DeleteContents, CacheStep,
       MapsOK, WorldOK, TypeInv, CacheTypes, TaskTypes, FitsAt, FileLess,
       MaybeText, Texts, config, outside, runs
  <2>2. \E l \in Labels : Goto(g, l) /\ UNCHANGED task /\ FitsAt(l, task[g])
    BY <1>1, <1>3 DEF DeleteContents, CacheStep, FitsAt, FileLess, Labels
  <2> QED
    BY <2>1, <2>2, GoesOn, MoveKeepsTypes
<1>4. CASE DeleteIgnored(g)
  <2>1. MapsOK' /\ WorldOK'
    BY <1>1, <1>2, <1>4, TextsAreDistinct DEF DeleteIgnored, CacheStep,
       MapsOK, WorldOK, TypeInv, CacheTypes, TaskTypes, FitsAt, FileLess,
       MaybeText, Texts, config, outside, runs
  <2>2. \E l \in Labels : Goto(g, l) /\ UNCHANGED task /\ FitsAt(l, task[g])
    BY <1>1, <1>4 DEF DeleteIgnored, CacheStep, FitsAt, FileLess, Labels
  <2> QED
    BY <2>1, <2>2, GoesOn, MoveKeepsTypes
<1>5. CASE DeleteModule(g)
  <2>1. MapsOK' /\ WorldOK'
    BY <1>1, <1>2, <1>5, TextsAreDistinct DEF DeleteModule, CacheStep, MapsOK,
       WorldOK, TypeInv, CacheTypes, TaskTypes, FitsAt, FileLess, MaybeText,
       Texts, config, outside, runs
  <2>2. \E l \in Labels : Goto(g, l) /\ UNCHANGED task /\ FitsAt(l, task[g])
    BY <1>1, <1>5 DEF DeleteModule, CacheStep, FitsAt, FileLess, Labels
  <2> QED
    BY <2>1, <2>2, GoesOn, MoveKeepsTypes
<1>6. CASE DeleteDiagnostics(g)
  <2>1. MapsOK' /\ WorldOK'
    BY <1>1, <1>2, <1>6, TextsAreDistinct DEF DeleteDiagnostics, CacheStep,
       MapsOK, WorldOK, TypeInv, CacheTypes, TaskTypes, FitsAt, FileLess,
       MaybeText, Texts, config, outside, runs
  <2>2. \E l \in Labels : Goto(g, l) /\ UNCHANGED task /\ FitsAt(l, task[g])
    BY <1>1, <1>6 DEF DeleteDiagnostics, CacheStep, FitsAt, FileLess, Labels
  <2> QED
    BY <2>1, <2>2, GoesOn, MoveKeepsTypes
<1>7. CASE DeleteParseErrors(g)
  <2>1. MapsOK' /\ WorldOK'
    BY <1>1, <1>2, <1>7, TextsAreDistinct DEF DeleteParseErrors, CacheStep,
       MapsOK, WorldOK, TypeInv, CacheTypes, TaskTypes, FitsAt, FileLess,
       MaybeText, Texts, config, outside, runs
  <2>2. \E l \in Labels : Goto(g, l) /\ UNCHANGED task /\ FitsAt(l, task[g])
    BY <1>1, <1>7 DEF DeleteParseErrors, CacheStep, FitsAt, FileLess, Labels
  <2> QED
    BY <2>1, <2>2, GoesOn, MoveKeepsTypes
<1>8. CASE DeleteLineCount(g)
  <2>1. MapsOK' /\ WorldOK'
    BY <1>1, <1>2, <1>8 DEF DeleteLineCount, MapsOK, WorldOK, TypeInv,
       CacheTypes, StoreTypes, TaskTypes, FitsAt, FileLess, MaybeText, config,
       outside, runs
  <2>2. Finish(g) \/ \E l \in Labels : Goto(g, l) /\ UNCHANGED task /\ FitsAt(l, task[g])
    BY <1>1, <1>8 DEF DeleteLineCount, FitsAt, FileLess, Labels
  <2> QED
    BY <2>1, <2>2, GoesOn, MoveKeepsTypes
<1> QED
  BY <1>3, <1>4, <1>5, <1>6, <1>7, <1>8 DEF DeleteStep

\* The steps of sendFileDiagnostics.
LEMMA SendKeepsTypes ==
  ASSUME TypeInv, NEW g \in Goroutines, SendStep(g)
  PROVE  TypeInv'
<1>1. pc[g] \in Labels /\ task[g] \in TaskTypes /\ FitsAt(pc[g], task[g])
  BY DEF TypeInv
<1>2. cache \in CacheTypes /\ store \in StoreTypes
  BY DEF TypeInv, MapsOK
<1>3. CASE SendErrors(g)
  <2>1. MapsOK' /\ WorldOK'
    BY <1>3, LocalStepKeeps DEF SendErrors
  <2>2. Finish(g) \/ GoesAs(g)
    <3> SUFFICES ASSUME ~Finish(g)
                 PROVE  GoesAs(g)
      OBVIOUS
    <3>1. /\ pc' = [pc EXCEPT ![g] = pc'[g]] /\ task' = [task EXCEPT ![g] = task'[g]]
          /\ pc'[g] \in Labels
      BY <1>1, <1>3 DEF SendErrors, Goto, Labels, TypeInv
    <3>2. task'[g] \in TaskTypes
      <4>1. \E d \in MaybeText : task'[g] = [task[g] EXCEPT !.diag = d]
        BY <1>1, <1>2, <1>3 DEF SendErrors, CacheTypes, MaybeText, Texts, FitsAt, FileLess, TypeInv
      <4> QED
        BY <1>1, <4>1 DEF TaskTypes
    <3>3. FitsAt(pc'[g], task'[g])
      BY <1>1, <1>2, <1>3 DEF SendErrors, Goto, FitsAt, FileLess, Labels,
         TaskTypes, CacheTypes, MaybeText, Texts, TypeInv, WorldOK
    <3> QED
      BY <3>1, <3>2, <3>3 DEF GoesAs
  <2> QED
    BY <2>1, <2>2, GoesOn, GoesAsMoves, MoveKeepsTypes
<1>4. CASE SendDiags(g)
  <2>1. MapsOK' /\ WorldOK'
    BY <1>4, LocalStepKeeps DEF SendDiags
  <2>2. Finish(g) \/ GoesAs(g)
    <3> SUFFICES ASSUME ~Finish(g)
                 PROVE  GoesAs(g)
      OBVIOUS
    <3>1. /\ pc' = [pc EXCEPT ![g] = pc'[g]] /\ task' = [task EXCEPT ![g] = task'[g]]
          /\ pc'[g] \in Labels
      BY <1>1, <1>4 DEF SendDiags, Goto, Labels, TypeInv
    <3>2. task'[g] \in TaskTypes
      <4>1. \E d \in MaybeText : task'[g] = [task[g] EXCEPT !.diag = d]
        BY <1>1, <1>2, <1>4 DEF SendDiags, CacheTypes, MaybeText, Texts, FitsAt, FileLess, TypeInv
      <4> QED
        BY <1>1, <4>1 DEF TaskTypes
    <3>3. FitsAt(pc'[g], task'[g])
      BY <1>1, <1>2, <1>4 DEF SendDiags, Goto, FitsAt, FileLess, Labels,
         TaskTypes, CacheTypes, MaybeText, Texts, TypeInv, WorldOK
    <3> QED
      BY <3>1, <3>2, <3>3 DEF GoesAs
  <2> QED
    BY <2>1, <2>2, GoesOn, GoesAsMoves, MoveKeepsTypes
<1>5. CASE Notify(g)
  <2>1. MapsOK' /\ WorldOK'
    BY <1>1, <1>2, <1>5 DEF Notify, MapsOK, WorldOK, TypeInv, CacheTypes,
       StoreTypes, TaskTypes, FitsAt, FileLess, MaybeText, config, runs
  <2>2. Finish(g) \/ \E l \in Labels : Goto(g, l) /\ UNCHANGED task /\ FitsAt(l, task[g])
    BY <1>1, <1>5 DEF Notify, FitsAt, FileLess, Labels
  <2> QED
    BY <2>1, <2>2, GoesOn, MoveKeepsTypes
<1> QED
  BY <1>3, <1>4, <1>5 DEF SendStep

\* The steps of the formatter and of the template worker.
LEMMA TemplateKeepsTypes ==
  ASSUME TypeInv, NEW g \in Goroutines, TemplateStep(g)
  PROVE  TypeInv'
<1>1. pc[g] \in Labels /\ task[g] \in TaskTypes /\ FitsAt(pc[g], task[g])
  BY DEF TypeInv
<1>2. cache \in CacheTypes /\ store \in StoreTypes
  BY DEF TypeInv, MapsOK
<1>3. CASE FormatRead(g)
  <2>1. MapsOK' /\ WorldOK'
    BY <1>3, LocalStepKeeps DEF FormatRead
  <2>2. Finish(g) \/ \E l \in Labels : Goto(g, l) /\ UNCHANGED task /\ FitsAt(l, task[g])
    BY <1>1, <1>3 DEF FormatRead, FitsAt, FileLess, Labels
  <2> QED
    BY <2>1, <2>2, GoesOn, MoveKeepsTypes
<1>4. CASE ClearFileDiagnostics(g)
  <2>1. MapsOK' /\ WorldOK'
    BY <1>1, <1>2, <1>4, TextsAreDistinct DEF ClearFileDiagnostics, CacheStep,
       MapsOK, WorldOK, TypeInv, CacheTypes, TaskTypes, FitsAt, FileLess,
       MaybeText, Texts, config, outside, runs, EveryFile
  <2>2. \E l \in Labels : Goto(g, l) /\ UNCHANGED task /\ FitsAt(l, task[g])
    BY <1>1, <1>4 DEF ClearFileDiagnostics, CacheStep, FitsAt, FileLess,
       Labels
  <2> QED
    BY <2>1, <2>2, GoesOn, MoveKeepsTypes
<1>5. CASE MarkTemplating(g)
  <2>1. MapsOK' /\ WorldOK'
    BY <1>1, <1>2, <1>5 DEF MarkTemplating, MapsOK, WorldOK, TypeInv,
       CacheTypes, StoreTypes, TaskTypes, FitsAt, FileLess, MaybeText,
       outside, runs
  <2>2. Finish(g) \/ \E l \in Labels : Goto(g, l) /\ UNCHANGED task /\ FitsAt(l, task[g])
    BY <1>1, <1>5 DEF MarkTemplating, FitsAt, FileLess, Labels
  <2> QED
    BY <2>1, <2>2, GoesOn, MoveKeepsTypes
<1>6. CASE CheckEmpty(g)
  <2>1. MapsOK' /\ WorldOK'
    BY <1>6, LocalStepKeeps DEF CheckEmpty
  <2>2. Finish(g) \/ \E l \in Labels : Goto(g, l) /\ UNCHANGED task /\ FitsAt(l, task[g])
    BY <1>1, <1>6 DEF CheckEmpty, FitsAt, FileLess, Labels, GiveUpTemplate
  <2> QED
    BY <2>1, <2>2, GoesOn, MoveKeepsTypes
<1>7. CASE CheckEmptyOnDisk(g)
  <2>1. MapsOK' /\ WorldOK'
    BY <1>7, LocalStepKeeps DEF CheckEmptyOnDisk
  <2>2. \/ Finish(g)
        \/ \E l \in Labels : Goto(g, l) /\ UNCHANGED task /\ FitsAt(l, task[g])
        \/ (Goto(g, "set") \/ Goto(g, "clear")) /\ task' = [task EXCEPT ![g].text = Template]
    BY <1>1, <1>7 DEF CheckEmptyOnDisk, FitsAt, FileLess, Labels,
       GiveUpTemplate
  <2>3. CASE (Goto(g, "set") \/ Goto(g, "clear")) /\ task' = [task EXCEPT ![g].text = Template]
    <3>1. task'[g] = [task[g] EXCEPT !.text = Template] /\ task' = [task EXCEPT ![g] = task'[g]]
      BY <1>1, <2>3 DEF TypeInv
    <3>2. pc' = [pc EXCEPT ![g] = pc'[g]] /\ pc'[g] \in {"set", "clear"}
      BY <1>1, <2>3 DEF Goto, TypeInv
    <3>3. task'[g] \in TaskTypes
      BY <1>1, <3>1, TextsAreDistinct DEF TaskTypes, MaybeText, Texts, AllOps
    <3>4. pc'[g] \in Labels /\ FitsAt(pc'[g], task'[g])
      BY <1>1, <1>7, <3>1, <3>2, TextsAreDistinct DEF CheckEmptyOnDisk,
         FitsAt, FileLess, TaskTypes, Labels
    <3> QED
      BY <2>1, <3>1, <3>2, <3>3, <3>4, GoesAsMoves, MoveKeepsTypes DEF GoesAs
  <2> QED
    BY <2>1, <2>2, <2>3, GoesOn, MoveKeepsTypes
<1>8. CASE ApplyTemplate(g)
  <2>1. MapsOK' /\ WorldOK'
    BY <1>8, LocalStepKeeps DEF ApplyTemplate
  <2>2. Finish(g) \/ \E l \in Labels : Goto(g, l) /\ UNCHANGED task /\ FitsAt(l, task[g])
    BY <1>1, <1>8 DEF ApplyTemplate, FitsAt, FileLess, Labels
  <2> QED
    BY <2>1, <2>2, GoesOn, MoveKeepsTypes
<1>9. CASE UnmarkTemplating(g)
  <2>1. MapsOK' /\ WorldOK'
    BY <1>1, <1>2, <1>9 DEF UnmarkTemplating, MapsOK, WorldOK, TypeInv,
       CacheTypes, StoreTypes, TaskTypes, FitsAt, FileLess, MaybeText,
       outside, runs
  <2>2. Finish(g) \/ \E l \in Labels : Goto(g, l) /\ UNCHANGED task /\ FitsAt(l, task[g])
    BY <1>1, <1>9 DEF UnmarkTemplating, FitsAt, FileLess, Labels
  <2> QED
    BY <2>1, <2>2, GoesOn, MoveKeepsTypes
<1>10. CASE FixMismatch(g)
  <2>1. MapsOK' /\ WorldOK'
    BY <1>10, LocalStepKeeps DEF FixMismatch
  <2>2. \E l \in Labels : Goto(g, l) /\ UNCHANGED task /\ FitsAt(l, task[g])
    BY <1>1, <1>10 DEF FixMismatch, FitsAt, FileLess, Labels
  <2> QED
    BY <2>1, <2>2, GoesOn, MoveKeepsTypes
<1>11. CASE MoveFrom(g)
  <2>1. MapsOK' /\ WorldOK'
    BY <1>11, LocalStepKeeps DEF MoveFrom
  <2>2. /\ pc' = [pc EXCEPT ![g] = pc'[g]] /\ pc'[g] \in {"tmplDone", "tmplTo"}
        /\ task' = [task EXCEPT ![g] = task'[g]]
        /\ task'[g] = [task[g] EXCEPT !.text = cache.contents[task[g].file]]
    BY <1>1, <1>11 DEF MoveFrom, Goto, TypeInv
  <2>3. task[g].file \in Files /\ cache.contents[task[g].file] \in MaybeText
    BY <1>1, <1>2, <1>11 DEF MoveFrom, FitsAt, FileLess, CacheTypes
  <2>4. task'[g] \in TaskTypes
    BY <1>1, <2>2, <2>3 DEF TaskTypes
  <2>5. pc'[g] \in Labels /\ FitsAt(pc'[g], task'[g])
    BY <1>1, <2>2, <2>3 DEF FitsAt, FileLess, Labels, TaskTypes
  <2> QED
    BY <2>1, <2>2, <2>4, <2>5, GoesAsMoves, MoveKeepsTypes DEF GoesAs
<1>12. CASE MoveTo(g)
  <2>1. MapsOK' /\ WorldOK'
    BY <1>12, LocalStepKeeps DEF MoveTo
  <2>2. CASE Goto(g, "delContents") /\ UNCHANGED task
    <3>1. FitsAt("delContents", task[g]) /\ "delContents" \in Labels
      BY <1>1, <1>12 DEF MoveTo, FitsAt, FileLess, Labels
    <3> QED
      BY <2>1, <2>2, <3>1, GoesOn, MoveKeepsTypes
  <2>3. CASE \E d \in Files : task' = [task EXCEPT ![g].dest = d] /\ Goto(g, "tmplSet")
    <3>1. PICK d \in Files : task' = [task EXCEPT ![g].dest = d]
      BY <2>3
    <3>2. /\ pc' = [pc EXCEPT ![g] = pc'[g]] /\ pc'[g] = "tmplSet"
          /\ task' = [task EXCEPT ![g] = task'[g]]
          /\ task'[g] = [task[g] EXCEPT !.dest = d]
      BY <1>1, <2>3, <3>1 DEF Goto, TypeInv
    <3>3. task'[g] \in TaskTypes
      BY <1>1, <3>2 DEF TaskTypes
    <3>4. pc'[g] \in Labels /\ FitsAt(pc'[g], task'[g])
      BY <1>1, <1>12, <3>2 DEF MoveTo, FitsAt, FileLess, Labels, TaskTypes
    <3> QED
      BY <2>1, <3>2, <3>3, <3>4, GoesAsMoves, MoveKeepsTypes DEF GoesAs
  <2> QED
    BY <1>12, <2>2, <2>3 DEF MoveTo
<1>13. CASE MoveSet(g)
  <2>1. task[g].dest \in Files /\ task[g].text \in MaybeText
    BY <1>1, <1>13 DEF MoveSet, CacheStep, FitsAt, TaskTypes
  <2>2. MapsOK' /\ WorldOK'
    BY <1>1, <1>2, <1>13, <2>1 DEF MoveSet, CacheStep, MapsOK, WorldOK, TypeInv,
       CacheTypes, config, outside, runs
  <2>3. Goto(g, "delContents") /\ UNCHANGED task /\ FitsAt("delContents", task[g])
    BY <1>1, <1>13 DEF MoveSet, CacheStep, FitsAt, FileLess
  <2>4. "delContents" \in Labels
    BY DEF Labels
  <2> QED
    BY <2>2, <2>3, <2>4, GoesOn, MoveKeepsTypes
<1>14. CASE MovePut(g)
  <2>1. MapsOK' /\ WorldOK'
    BY <1>14, LocalStepKeeps DEF MovePut
  <2>2. CASE Goto(g, "tmplDone") /\ UNCHANGED task
    <3>1. FitsAt("tmplDone", task[g]) /\ "tmplDone" \in Labels
      BY <1>1, <1>14 DEF MovePut, FitsAt, FileLess, Labels
    <3> QED
      BY <2>1, <2>2, <3>1, GoesOn, MoveKeepsTypes
  <2>3. CASE Goto(g, "delContents") /\ task' = [task EXCEPT ![g].op = "moved"]
    <3>1. /\ pc' = [pc EXCEPT ![g] = pc'[g]] /\ pc'[g] = "delContents"
          /\ task' = [task EXCEPT ![g] = task'[g]]
          /\ task'[g] = [task[g] EXCEPT !.op = "moved"]
      BY <1>1, <2>3 DEF Goto, TypeInv
    <3>2. task'[g] \in TaskTypes
      BY <1>1, <3>1 DEF TaskTypes
    <3>3. pc'[g] \in Labels /\ FitsAt(pc'[g], task'[g])
      BY <1>1, <1>14, <3>1 DEF MovePut, FitsAt, FileLess, Labels, TaskTypes
    <3> QED
      BY <2>1, <3>1, <3>2, <3>3, GoesAsMoves, MoveKeepsTypes DEF GoesAs
  <2> QED
    BY <1>14, <2>2, <2>3 DEF MovePut
<1> QED
  BY <1>3, <1>4, <1>5, <1>6, <1>7, <1>8, <1>9, <1>10, <1>11, <1>12, <1>13, <1>14
     DEF TemplateStep

\* The steps of loadConfig.
LEMMA ConfigKeepsTypes ==
  ASSUME TypeInv, NEW g \in Goroutines, ConfigStep(g)
  PROVE  TypeInv'
<1>1. pc[g] \in Labels /\ task[g] \in TaskTypes /\ FitsAt(pc[g], task[g])
  BY DEF TypeInv
<1>2. cache \in CacheTypes /\ store \in StoreTypes
  BY DEF TypeInv, MapsOK
<1>3. CASE MoveNext(g)
  <2>1. MapsOK' /\ WorldOK'
    BY <1>3, LocalStepKeeps DEF MoveNext
  <2>2. \/ Finish(g)
        \/ (task[g].todo \intersect ignoring = {} /\ UNCHANGED task)
        \/ \E f \in task[g].todo \intersect ignoring : TakesText(g, f, cache.contents[f], {"delContents", "removeMod"})
    BY <1>1, <1>3, <1>2 DEF MoveNext, Goto, TypeInv, TaskTypes, CacheTypes,
       TakesText
  <2>3. pc' = [pc EXCEPT ![g] = pc'[g]] /\ pc'[g] \in Labels
    BY <1>1, <1>3 DEF MoveNext, Goto, Labels, TypeInv, TaskTypes
  <2>4. CASE Finish(g)
    BY <2>1, <2>4, GoesOn, MoveKeepsTypes
  <2>5. CASE (task[g].todo \intersect ignoring = {} /\ UNCHANGED task) /\ ~Finish(g)
    <3>1. \E l \in Labels : Goto(g, l) /\ UNCHANGED task /\ FitsAt(l, task[g])
      BY <1>1, <1>3, <2>5, <1>2 DEF MoveNext, Goto, FitsAt, FileLess, Labels,
         MaybeText, Texts, TypeInv, TaskTypes, CacheTypes
    <3> QED
      BY <2>1, <3>1, GoesOn, MoveKeepsTypes
  <2>6. CASE \E f \in task[g].todo \intersect ignoring :
          TakesText(g, f, cache.contents[f], {"delContents", "removeMod"})
    <3>1. PICK f \in task[g].todo \intersect ignoring :
            TakesText(g, f, cache.contents[f], {"delContents", "removeMod"})
      BY <2>6
    <3>2. task'[g] \in TaskTypes
      BY <1>1, <1>2, <3>1, <1>2 DEF TaskTypes, CacheTypes, MaybeText, Texts,
         AllOps, TakesText
    <3>3. task' = [task EXCEPT ![g] = task'[g]]
      BY <1>3 DEF MoveNext, TypeInv, TaskTypes
    <3>4. FitsAt(pc'[g], task'[g])
      BY <1>1, <1>2, <1>3, <3>1, <1>2 DEF MoveNext, FitsAt, FileLess,
         TaskTypes, MaybeText, Texts, CacheTypes, TakesText
    <3> QED
      BY <2>1, <2>3, <3>2, <3>3, <3>4, GoesAsMoves, MoveKeepsTypes DEF GoesAs
  <2> QED
    BY <2>2, <2>4, <2>5, <2>6
<1>4. CASE RemoveFileMod(g)
  <2>1. MapsOK' /\ WorldOK'
    BY <1>1, <1>2, <1>4 DEF RemoveFileMod, MapsOK, WorldOK, TypeInv,
       CacheTypes, StoreTypes, TaskTypes, FitsAt, FileLess, MaybeText, config,
       outside, runs
  <2>2. Finish(g) \/ \E l \in Labels : Goto(g, l) /\ UNCHANGED task /\ FitsAt(l, task[g])
    BY <1>1, <1>4 DEF RemoveFileMod, FitsAt, FileLess, Labels
  <2> QED
    BY <2>1, <2>2, GoesOn, MoveKeepsTypes
<1>5. CASE CopyIgnored(g)
  <2>1. MapsOK' /\ WorldOK'
    BY <1>5, LocalStepKeeps DEF CopyIgnored
  <2>2. Finish(g) \/ GoesAs(g)
    <3> SUFFICES ASSUME ~Finish(g)
                 PROVE  GoesAs(g)
      OBVIOUS
    <3>1. /\ pc' = [pc EXCEPT ![g] = pc'[g]] /\ task' = [task EXCEPT ![g] = task'[g]]
          /\ pc'[g] \in Labels
      BY <1>1, <1>5 DEF CopyIgnored, Goto, Labels, TypeInv
    <3>2. task'[g] \in TaskTypes
      BY <1>1, <1>2, <1>5 DEF CopyIgnored, Goto, TaskTypes, CacheTypes,
         MaybeText, Texts, FitsAt, FileLess, TypeInv, WorldOK
    <3>3. FitsAt(pc'[g], task'[g])
      BY <1>1, <1>2, <1>5 DEF CopyIgnored, Goto, FitsAt, FileLess, Labels,
         TaskTypes, CacheTypes, MaybeText, Texts, TypeInv, WorldOK
    <3> QED
      BY <3>1, <3>2, <3>3 DEF GoesAs
  <2> QED
    BY <2>1, <2>2, GoesOn, GoesAsMoves, MoveKeepsTypes
<1>6. CASE RestoreNext(g)
  <2>1. MapsOK' /\ WorldOK'
    BY <1>6, LocalStepKeeps DEF RestoreNext
  <2>2. \/ Finish(g)
        \/ (task[g].todo = {} /\ UNCHANGED task)
        \/ \E f \in task[g].todo : TakesText(g, f, task[g].copy[f], {"clearIgnored", "set"})
    BY <1>1, <1>6 DEF RestoreNext, Goto, TypeInv, TaskTypes, TakesText
  <2>3. pc' = [pc EXCEPT ![g] = pc'[g]] /\ pc'[g] \in Labels
    BY <1>1, <1>6 DEF RestoreNext, Goto, Labels, TypeInv, TaskTypes
  <2>4. CASE Finish(g)
    BY <2>1, <2>4, GoesOn, MoveKeepsTypes
  <2>5. CASE (task[g].todo = {} /\ UNCHANGED task) /\ ~Finish(g)
    <3>1. \E l \in Labels : Goto(g, l) /\ UNCHANGED task /\ FitsAt(l, task[g])
      BY <1>1, <1>6, <2>5 DEF RestoreNext, Goto, FitsAt, FileLess, Labels,
         MaybeText, Texts, TypeInv, TaskTypes
    <3> QED
      BY <2>1, <3>1, GoesOn, MoveKeepsTypes
  <2>6. CASE \E f \in task[g].todo :
          TakesText(g, f, task[g].copy[f], {"clearIgnored", "set"})
    <3>1. PICK f \in task[g].todo :
            TakesText(g, f, task[g].copy[f], {"clearIgnored", "set"})
      BY <2>6
    <3>2. task'[g] \in TaskTypes
      BY <1>1, <1>2, <3>1 DEF TaskTypes, CacheTypes, MaybeText, Texts, AllOps,
         TakesText
    <3>3. task' = [task EXCEPT ![g] = task'[g]]
      BY <1>6 DEF RestoreNext, TypeInv, TaskTypes
    <3>4. FitsAt(pc'[g], task'[g])
      BY <1>1, <1>2, <1>6, <3>1 DEF RestoreNext, FitsAt, FileLess, TaskTypes,
         MaybeText, Texts, CacheTypes, TakesText
    <3> QED
      BY <2>1, <2>3, <3>2, <3>3, <3>4, GoesAsMoves, MoveKeepsTypes DEF GoesAs
  <2> QED
    BY <2>2, <2>4, <2>5, <2>6
<1>7. CASE ClearIgnored(g)
  <2>1. MapsOK' /\ WorldOK'
    BY <1>1, <1>2, <1>7, TextsAreDistinct DEF ClearIgnored, CacheStep, MapsOK,
       WorldOK, TypeInv, CacheTypes, TaskTypes, FitsAt, FileLess, MaybeText,
       Texts, config, outside, runs
  <2>2. \E l \in Labels : Goto(g, l) /\ UNCHANGED task /\ FitsAt(l, task[g])
    BY <1>1, <1>7 DEF ClearIgnored, CacheStep, FitsAt, FileLess, Labels
  <2> QED
    BY <2>1, <2>2, GoesOn, MoveKeepsTypes
<1> QED
  BY <1>3, <1>4, <1>5, <1>6, <1>7 DEF ConfigStep

\* The steps of a lint run.
LEMMA LintKeepsTypes ==
  ASSUME TypeInv, NEW g \in Goroutines, LintStep(g)
  PROVE  TypeInv'
<1>1. pc[g] \in Labels /\ task[g] \in TaskTypes /\ FitsAt(pc[g], task[g])
  BY DEF TypeInv
<1>2. cache \in CacheTypes /\ store \in StoreTypes
  BY DEF TypeInv, MapsOK
<1>3. CASE Lint(g)
  <2>1. MapsOK' /\ WorldOK'
    BY <1>1, <1>2, <1>3 DEF Lint, MapsOK, WorldOK, TypeInv, CacheTypes,
       StoreTypes, TaskTypes, FitsAt, FileLess, MaybeText, config, outside
  <2>2. Finish(g) \/ \E l \in Labels : Goto(g, l) /\ UNCHANGED task /\ FitsAt(l, task[g])
    BY <1>1, <1>3 DEF Lint, FitsAt, FileLess, Labels
  <2> QED
    BY <2>1, <2>2, GoesOn, MoveKeepsTypes
<1>4. CASE LintCheck(g)
  <2>1. MapsOK' /\ WorldOK'
    BY <1>4, LocalStepKeeps DEF LintCheck
  <2>2. \/ Finish(g)
        \/ (task[g].todo = {} /\ UNCHANGED task)
        \/ \E f \in task[g].todo : Takes(g, f, {"lintCheck", "lintStore"})
    BY <1>1, <1>4 DEF LintCheck, Goto, TypeInv, TaskTypes, Takes
  <2>3. pc' = [pc EXCEPT ![g] = pc'[g]] /\ pc'[g] \in Labels
    BY <1>1, <1>4 DEF LintCheck, Goto, Labels, TypeInv, TaskTypes
  <2>4. CASE Finish(g)
    BY <2>1, <2>4, GoesOn, MoveKeepsTypes
  <2>5. CASE (task[g].todo = {} /\ UNCHANGED task) /\ ~Finish(g)
    <3>1. \E l \in Labels : Goto(g, l) /\ UNCHANGED task /\ FitsAt(l, task[g])
      BY <1>1, <1>4, <2>5 DEF LintCheck, Goto, FitsAt, FileLess, Labels,
         MaybeText, Texts, TypeInv, TaskTypes
    <3> QED
      BY <2>1, <3>1, GoesOn, MoveKeepsTypes
  <2>6. CASE \E f \in task[g].todo : Takes(g, f, {"lintCheck", "lintStore"})
    <3>1. PICK f \in task[g].todo : Takes(g, f, {"lintCheck", "lintStore"})
      BY <2>6
    <3>2. task'[g] \in TaskTypes
      BY <1>1, <1>2, <3>1 DEF TaskTypes, CacheTypes, MaybeText, Texts, AllOps,
         Takes
    <3>3. task' = [task EXCEPT ![g] = task'[g]]
      BY <1>4 DEF LintCheck, TypeInv, TaskTypes
    <3>4. FitsAt(pc'[g], task'[g])
      BY <1>1, <1>2, <1>4, <3>1 DEF LintCheck, FitsAt, FileLess, TaskTypes,
         MaybeText, Texts, CacheTypes, Takes
    <3> QED
      BY <2>1, <2>3, <3>2, <3>3, <3>4, GoesAsMoves, MoveKeepsTypes DEF GoesAs
  <2> QED
    BY <2>2, <2>4, <2>5, <2>6
<1>5. CASE SetFileDiagnostics(g)
  <2>1. MapsOK' /\ WorldOK'
    <3>1. task[g].file \in Files /\ task[g].copy[task[g].file] \in Good \union {Nothing}
      BY <1>1, <1>5 DEF SetFileDiagnostics, CacheStep, FitsAt, FileLess
    <3>2. cache' = [cache EXCEPT !.diags[task[g].file] = task[g].copy[task[g].file]]
      BY <1>5 DEF SetFileDiagnostics, CacheStep
    <3>3. MapsOK'
      BY <1>2, <1>5, <3>1, <3>2 DEF SetFileDiagnostics, CacheStep, MapsOK, CacheTypes
    <3>4. WorldOK'
      BY <1>5 DEF SetFileDiagnostics, CacheStep, WorldOK, TypeInv, config, outside, runs
    <3> QED
      BY <3>3, <3>4
  <2>2. \E l \in Labels : Goto(g, l) /\ UNCHANGED task /\ FitsAt(l, task[g])
    BY <1>1, <1>5 DEF SetFileDiagnostics, CacheStep, FitsAt, FileLess, Labels
  <2> QED
    BY <2>1, <2>2, GoesOn, MoveKeepsTypes
<1>6. CASE LintFiles(g)
  <2>1. MapsOK' /\ WorldOK'
    BY <1>6, LocalStepKeeps DEF LintFiles
  <2>2. Finish(g) \/ GoesAs(g)
    <3> SUFFICES ASSUME ~Finish(g)
                 PROVE  GoesAs(g)
      OBVIOUS
    <3>1. /\ pc' = [pc EXCEPT ![g] = pc'[g]] /\ task' = [task EXCEPT ![g] = task'[g]]
          /\ pc'[g] \in Labels
      BY <1>1, <1>6 DEF LintFiles, Goto, Labels, TypeInv, AllFiles, EveryFile
    <3>2. task'[g] \in TaskTypes
      <4>1. task'[g] = [task[g] EXCEPT !.todo = AllFiles, !.copy = EveryFile(Nothing)]
        BY <1>1, <1>6 DEF LintFiles, TypeInv
      <4>2. AllFiles \in SUBSET Files /\ EveryFile(Nothing) \in [Files -> MaybeText]
        BY DEF AllFiles, EveryFile, MaybeText
      <4> QED
        BY <1>1, <4>1, <4>2 DEF TaskTypes
    <3>3. FitsAt(pc'[g], task'[g])
      BY <1>1, <1>2, <1>6 DEF LintFiles, Goto, FitsAt, FileLess, Labels,
         TaskTypes, CacheTypes, MaybeText, Texts, TypeInv, WorldOK, AllFiles,
         EveryFile
    <3> QED
      BY <3>1, <3>2, <3>3 DEF GoesAs
  <2> QED
    BY <2>1, <2>2, GoesOn, GoesAsMoves, MoveKeepsTypes
<1>7. CASE LintSend(g)
  <2>1. MapsOK' /\ WorldOK'
    BY <1>7, LocalStepKeeps DEF LintSend
  <2>2. \/ Finish(g)
        \/ (task[g].todo = {} /\ UNCHANGED task)
        \/ \E f \in task[g].todo : Takes(g, f, {"sendErrors"})
    BY <1>1, <1>7 DEF LintSend, Goto, TypeInv, TaskTypes, Takes
  <2>3. pc' = [pc EXCEPT ![g] = pc'[g]] /\ pc'[g] \in Labels
    BY <1>1, <1>7 DEF LintSend, Goto, Finish, Labels, TypeInv, TaskTypes
  <2>4. CASE Finish(g)
    BY <2>1, <2>4, GoesOn, MoveKeepsTypes
  <2>5. CASE (task[g].todo = {} /\ UNCHANGED task) /\ ~Finish(g)
    <3>1. \E l \in Labels : Goto(g, l) /\ UNCHANGED task /\ FitsAt(l, task[g])
      BY <1>1, <1>7, <2>5 DEF LintSend, Goto, FitsAt, FileLess, Labels,
         MaybeText, Texts, TypeInv, TaskTypes
    <3> QED
      BY <2>1, <3>1, GoesOn, MoveKeepsTypes
  <2>6. CASE \E f \in task[g].todo : Takes(g, f, {"sendErrors"})
    <3>1. PICK f \in task[g].todo : Takes(g, f, {"sendErrors"})
      BY <2>6
    <3>2. task'[g] \in TaskTypes
      BY <1>1, <1>2, <3>1 DEF TaskTypes, CacheTypes, MaybeText, Texts, AllOps,
         Takes
    <3>3. task' = [task EXCEPT ![g] = task'[g]]
      BY <1>7 DEF LintSend, Finish, TypeInv, TaskTypes
    <3>4. FitsAt(pc'[g], task'[g])
      BY <1>1, <1>2, <1>7, <3>1 DEF LintSend, FitsAt, FileLess, TaskTypes,
         MaybeText, Texts, CacheTypes, Takes
    <3> QED
      BY <2>1, <2>3, <3>2, <3>3, <3>4, GoesAsMoves, MoveKeepsTypes DEF GoesAs
  <2> QED
    BY <2>2, <2>4, <2>5, <2>6
<1> QED
  BY <1>3, <1>4, <1>5, <1>6, <1>7 DEF LintStep

\* An operation that starts, and a job that a worker takes, fit.
LEMMA TakesFit ==
  ASSUME NEW g \in Goroutines, NEW l \in Labels, NEW x, x \in TaskTypes, FitsAt(l, x),
         Goto(g, l), task' = [task EXCEPT ![g] = x]
  PROVE  Moves(g)
BY DEF Moves, Goto

\* A message, or a tick, begins with something that fits.
LEMMA BeginFits ==
  ASSUME TypeInv, NEW g \in Goroutines, NEW o \in AllOps, NEW f \in Files, NEW d \in Files,
         NEW t \in MaybeText, NEW l \in {"decide", "format", "stat"}, Begin(g, o, f, d, t, l),
         editor' \in [Files -> MaybeText]
  PROVE  TypeInv'
<1>1. MapsOK' /\ WorldOK'
  <2>1. starts + 1 \in 0..MaxStarts
    BY BoundsAreNat DEF Begin, MayStart, TypeInv, WorldOK
  <2> QED
    BY <2>1 DEF Begin, TypeInv, MapsOK, WorldOK, config, runs
<1> DEFINE x == [NoTask EXCEPT !.op = o, !.file = f, !.dest = d, !.text = t]
<1>2. x \in TaskTypes /\ x.op = o /\ x.file = f /\ x.dest = d
  BY NoTaskFits DEF TaskTypes
<1>3. Goto(g, l) /\ task' = [task EXCEPT ![g] = x]
  BY DEF Begin
<1> HIDE DEF x
<1>4. l \in Labels /\ FitsAt(l, x)
  BY <1>2 DEF FitsAt, Labels
<1>5. Moves(g)
  BY <1>2, <1>3, <1>4, TakesFit
<1> QED
  BY <1>1, <1>5, MoveKeepsTypes

\* Messages and ticks.
LEMMA ReceiveKeepsTypes ==
  ASSUME TypeInv, NEW g \in Goroutines, Receive(g)
  PROVE  TypeInv'
<1>1. editor \in [Files -> MaybeText] /\ Nothing \in MaybeText /\ SentTexts \subseteq MaybeText
  BY TextsAreDistinct DEF TypeInv, WorldOK, MaybeText
<1>2. CASE ReceiveText(g)
  <2>1. PICK o \in {"open", "edit"}, f \in Files, t \in SentTexts :
          Begin(g, o, f, f, t, "decide") /\ editor' = [editor EXCEPT ![f] = t]
    BY <1>2 DEF ReceiveText
  <2>2. editor' \in [Files -> MaybeText] /\ o \in AllOps /\ t \in MaybeText
    BY <1>1, <2>1 DEF AllOps
  <2> QED
    BY <2>1, <2>2, BeginFits
<1>3. CASE ReceiveGone(g)
  <2>1. PICK o \in {"close", "delete"}, f \in Files :
          Begin(g, o, f, f, Nothing, "decide") /\ editor' = [editor EXCEPT ![f] = Nothing]
    BY <1>3 DEF ReceiveGone
  <2>2. editor' \in [Files -> MaybeText] /\ o \in AllOps
    BY <1>1, <2>1 DEF AllOps
  <2> QED
    BY <1>1, <2>1, <2>2, BeginFits
<1>4. CASE ReceiveFile(g)
  <2>1. PICK o \in {"create", "watched", "format"}, f \in Files, l \in {"decide", "format"} :
          Begin(g, o, f, f, Nothing, l) /\ editor' = editor
    BY <1>4 DEF ReceiveFile
  <2>2. o \in AllOps
    BY DEF AllOps
  <2> QED
    BY <1>1, <2>1, <2>2, BeginFits
<1>5. CASE ReceiveRename(g)
  <2>1. PICK f \in Files, d \in Files :
          /\ Begin(g, "rename", f, d, Nothing, "decide")
          /\ editor' = [editor EXCEPT ![f] = Nothing, ![d] = editor[f]]
    BY <1>5 DEF ReceiveRename
  <2>2. editor' \in [Files -> MaybeText] /\ "rename" \in AllOps
    BY <1>1, <2>1 DEF AllOps
  <2> QED
    BY <1>1, <2>1, <2>2, BeginFits
<1>6. CASE StateWorkerTick(g)
  <2>1. PICK o \in {"load", "sweep"}, f \in Files, l \in {"decide", "stat"} :
          Begin(g, o, f, f, Nothing, l) /\ editor' = editor
    BY <1>6 DEF StateWorkerTick
  <2>2. o \in AllOps
    BY DEF AllOps
  <2> QED
    BY <1>1, <2>1, <2>2, BeginFits
<1> QED
  BY <1>2, <1>3, <1>4, <1>5, <1>6 DEF Receive

\* Jobs that the workers take, and what happens outside.
LEMMA WorkersKeepTypes ==
  ASSUME TypeInv
  PROVE  TakeTemplateJob \/ TakeConfig \/ StartLint \/ DiskChange \/ Poke => TypeInv'
<1>1. /\ ConfigWorker \in Goroutines /\ Templater \in Goroutines /\ LintWorker \in Goroutines
      /\ EveryFile(Nothing) \in [Files -> MaybeText] /\ Nothing \in MaybeText
      /\ cache \in CacheTypes
  BY DEF Goroutines, EveryFile, MaybeText, TypeInv, MapsOK
<1>2. CASE TakeTemplateJob
  <2>1. MapsOK' /\ WorldOK'
    BY <1>2 DEF TakeTemplateJob, TypeInv, MapsOK, WorldOK, outside, runs
  <2>2. PICK f \in Files :
          task' = [task EXCEPT ![Templater] = [NoTask EXCEPT !.op = "template",
                                                             !.file = f, !.dest = f]]
    BY <1>2 DEF TakeTemplateJob, TypeInv, WorldOK
  <2> DEFINE x == [NoTask EXCEPT !.op = "template", !.file = f, !.dest = f]
  <2>3. x \in TaskTypes /\ x.op = "template" /\ x.file = f
    BY JobIsATask
  <2>4. Goto(Templater, "tmplMark") /\ task' = [task EXCEPT ![Templater] = x]
    BY <1>2, <2>2 DEF TakeTemplateJob
  <2> HIDE DEF x
  <2>5. Moves(Templater)
    <3>1. "tmplMark" \in Labels /\ FitsAt("tmplMark", x)
      BY <2>3 DEF FitsAt, Labels
    <3> QED
      BY <1>1, <2>3, <2>4, <3>1, TakesFit
  <2> QED
    BY <1>1, <2>1, <2>5, MoveKeepsTypes
<1>3. CASE TakeConfig
  <2>1. starts + 1 \in 0..MaxStarts
    BY <1>3, BoundsAreNat DEF TakeConfig, LoadConfig, DropConfig, MayStart,
       TypeInv, WorldOK
  <2>2. ignoring' \in SUBSET Files
    BY <1>3, IgnoreSetsAreFiles DEF TakeConfig, LoadConfig, DropConfig
  <2>3. MapsOK' /\ WorldOK'
    BY <1>3, <2>1, <2>2 DEF TakeConfig, LoadConfig, DropConfig, TypeInv,
       MapsOK, WorldOK, outside, runs
  <2>4. PICK l \in {"move", "request"}, o \in {"reload", "drop"}, x \in TaskTypes :
          x.op = o /\ Goto(ConfigWorker, l) /\ task' = [task EXCEPT ![ConfigWorker] = x]
    <3>1. CASE LoadConfig
      <4> DEFINE x == [NoTask EXCEPT !.op = "reload", !.todo = AllFiles]
      <4>1. AllFiles \in SUBSET Files
        BY DEF AllFiles
      <4>2. x \in TaskTypes /\ x.op = "reload"
        BY <4>1, ReloadIsATask
      <4>3. /\ task' = [task EXCEPT ![ConfigWorker] = x]
            /\ Goto(ConfigWorker, "move") \/ Goto(ConfigWorker, "request")
        BY <3>1 DEF LoadConfig
      <4> HIDE DEF x
      <4> QED
        BY <4>2, <4>3
    <3>2. CASE DropConfig
      <4> DEFINE x == [NoTask EXCEPT !.op = "drop"]
      <4>2. x \in TaskTypes /\ x.op = "drop"
        BY DropIsATask
      <4>3. Goto(ConfigWorker, "request") /\ task' = [task EXCEPT ![ConfigWorker] = x]
        BY <3>2 DEF DropConfig
      <4> HIDE DEF x
      <4> QED
        BY <4>2, <4>3
    <3> QED
      BY <1>3, <3>1, <3>2 DEF TakeConfig
  <2>5. l \in Labels /\ FitsAt(l, x)
    BY <2>4 DEF Labels, FileLess, FitsAt
  <2>6. Moves(ConfigWorker)
    BY <1>1, <2>4, <2>5, TakesFit
  <2> QED
    BY <1>1, <2>3, <2>6, MoveKeepsTypes
<1>4. CASE StartLint
  <2>1. MapsOK' /\ WorldOK'
    BY <1>4 DEF StartLint, TypeInv, MapsOK, WorldOK, config, outside
  <2>2. cache.modules \in [Files -> Good \union {Nothing}] /\ cache.modules \in [Files -> MaybeText]
    BY <1>1 DEF CacheTypes, MaybeText, Texts
  <2> DEFINE todo == {f \in Files : cache.modules[f] # Nothing}
             x == [NoTask EXCEPT !.op = "lint", !.copy = cache.modules, !.todo = todo]
  <2>3. todo \in SUBSET Files
    OBVIOUS
  <2> HIDE DEF todo
  <2>4. x \in TaskTypes /\ x.op = "lint" /\ x.copy = cache.modules
    BY <2>2, <2>3, RunIsATask
  <2>5. Moves(LintWorker)
    <3>1. Goto(LintWorker, "lint") /\ task' = [task EXCEPT ![LintWorker] = x]
      BY <1>4 DEF StartLint, todo
    <3> HIDE DEF x
    <3>2. "lint" \in Labels /\ FitsAt("lint", x)
      BY <2>2, <2>4 DEF FitsAt, Labels, FileLess
    <3> QED
      BY <1>1, <2>4, <3>1, <3>2, TakesFit
  <2> QED
    BY <1>1, <2>1, <2>5, MoveKeepsTypes
<1>5. CASE DiskChange
  <2>1. writes + 1 \in 0..MaxWrites
    BY <1>5, BoundsAreNat DEF DiskChange, TypeInv, WorldOK
  <2>2. disk' \in [Files -> MaybeText]
    BY <1>5, TextsAreDistinct DEF DiskChange, TypeInv, WorldOK, MaybeText
  <2>3. MapsOK' /\ WorldOK'
    BY <1>5, <2>1, <2>2 DEF DiskChange, TypeInv, MapsOK, WorldOK, config, runs
  <2> QED
    BY <1>5, <2>3 DEF DiskChange, TypeInv, FitsAt
<1>6. CASE Poke
  <2>1. MapsOK' /\ WorldOK'
    BY <1>6 DEF Poke, TypeInv, MapsOK, WorldOK, config, outside
  <2> QED
    BY <1>6, <2>1 DEF Poke, TypeInv, FitsAt
<1> QED
  BY <1>2, <1>3, <1>4, <1>5, <1>6

\* Every step keeps what the goroutines have in hand fit for what they do next.
LEMMA TypesHold == Spec => []TypeInv
<1>1. Init => TypeInv
  <2> SUFFICES ASSUME Init
               PROVE  TypeInv
    OBVIOUS
  <2>1. EveryFile(Nothing) \in [Files -> MaybeText]
    BY DEF EveryFile, MaybeText
  <2>2. MapsOK
    BY DEF Init, InitMaps, MapsOK, CacheTypes, StoreTypes, EveryFile,
       MaybeText
  <2>3. disk \in [Files -> MaybeText] /\ ignoring \in SUBSET Files
    BY TextsAreDistinct, IgnoreSetsAreFiles DEF Init, InitMaps, MaybeText
  <2>4. WorldOK
    <3>1. 0 \in 0..MaxStarts /\ 0 \in 0..MaxWrites
      BY BoundsAreNat
    <3> QED
      BY <2>1, <2>3, <3>1 DEF Init, InitMaps, WorldOK
  <2>5. "idle" \in Labels /\ pc = [g \in Goroutines |-> "idle"]
    BY DEF Init, Labels
  <2>6. task = [g \in Goroutines |-> NoTask]
    BY DEF Init, NoTasks
  <2> QED
    BY <2>2, <2>4, <2>5, <2>6, NoTaskFits DEF TypeInv
<1>2. TypeInv /\ [Next]_vars => TypeInv'
  <2> SUFFICES ASSUME TypeInv, [Next]_vars
               PROVE  TypeInv'
    OBVIOUS
  <2>1. CASE \E g \in Pool : Receive(g)
    BY <2>1, ReceiveKeepsTypes DEF Goroutines
  <2>2. CASE \E g \in Goroutines : Step(g)
    BY <2>2, MessageKeepsTypes, ParseKeepsTypes, DiskKeepsTypes,
       DeleteKeepsTypes, SendKeepsTypes, TemplateKeepsTypes, ConfigKeepsTypes,
       LintKeepsTypes DEF Step
  <2>3. CASE TakeTemplateJob \/ TakeConfig \/ StartLint \/ DiskChange \/ Poke
    BY <2>3, WorkersKeepTypes
  <2>4. CASE UNCHANGED vars
    BY <2>4 DEF vars, config, outside, runs, TypeInv, MapsOK, WorldOK, FitsAt
  <2> QED
    BY <2>1, <2>2, <2>3, <2>4 DEF Next
<1> QED
  BY <1>1, <1>2, PTL DEF Spec

(* Whatever is interleaved with what, each map holds what belongs in it: a  *)
(* module is made from a text that parses, a parse error from one that does *)
(* not, and no goroutine works on a file that is none.                      *)
THEOREM DocumentTypes == Spec => []TypeOK
<1>1. TypeInv => TypeOK
  BY DEF TypeInv, TypeOK, MapsOK, WorldOK, CacheTypes, StoreTypes, TaskTypes
<1> QED
  BY <1>1, TypesHold, PTL

-----------------------------------------------------------------------------
(* What is shown in the editor, while nothing is deleted or ignored, neither *)
(* by a message nor by the template worker, which deletes what it moves.    *)

NothingErased ==
  /\ IgnoreSets \subseteq {{}}
  /\ Ops \intersect {"delete", "rename", "sweep"} = {}
  /\ Misplaced = {}

PoolOps == {"open", "edit", "close", "create", "watched", "format", "load", "loaded"}

PoolPlaces == {"idle", "decide", "templating?", "set", "parse", "errors", "module", "lines",
               "putMod", "putRefs", "parsed", "request", "template", "has", "read", "compare",
               "write", "format", "tmplCheck", "tmplDisk", "clear"}
WatchedPlaces == {"idle", "decide", "parse", "errors", "module", "lines", "putMod", "putRefs",
                  "parsed", "request"}
ConfigPlaces == {"idle", "move", "restore", "restoring", "request"}
TemplaterPlaces == {"idle", "tmplMark", "tmplCheck", "tmplDisk", "set", "tmplFix", "tmplEdit",
                    "request", "tmplDone"}
LintPlaces == {"idle", "lint", "lintCheck", "lintStore", "lintFiles", "lintSend", "sendErrors",
               "sendDiags", "notify"}

\* Where a goroutine may be, and what it may be doing there.
PlaceAt(g, l, x) ==
  /\ g \in Pool => /\ l \in PoolPlaces
                  /\ (l # "idle" => x.op \in PoolOps)
                  /\ (x.op = "watched" => l \in WatchedPlaces)
  /\ g = ConfigWorker => /\ l \in ConfigPlaces
                         /\ (l # "idle" => x.op \in {"reload", "drop"})
                         /\ (l = "restoring" => x.todo = {})
  /\ g = Templater => l \in TemplaterPlaces /\ (l # "idle" => x.op = "template")
  /\ g = LintWorker => l \in LintPlaces /\ (l # "idle" => x.op = "lint")

Places == \A g \in Goroutines : PlaceAt(g, pc[g], task[g])

\* What is about to be stored is a text.
HasText(l, x) ==
  l \in {"templating?", "set", "compare", "write", "clear"} \/ (l = "decide" /\ x.op \in {"open", "edit"})
    => x.text # Nothing

\* Entries are added and replaced, never removed.
Grows ==
  /\ ignoring = {} /\ cache.ignored = EveryFile(Nothing)
  /\ \A g \in Goroutines : HasText(pc[g], task[g])
  /\ pc[Templater] \in {"tmplDisk", "set"} => HasContents(task[Templater].file)
  /\ \A f \in Files : cache.diags[f] # Nothing => cache.modules[f] # Nothing
  /\ pc[LintWorker] \in {"lint", "lintCheck", "lintStore"} =>
       \A f \in Files : task[LintWorker].copy[f] # Nothing => cache.modules[f] # Nothing

\* g has changed what is shown of a file, or is about to, and will then ask
\* for a lint run.
WillAsk(g) ==
  \/ pc[g] \in {"errors", "module", "lines", "putMod", "putRefs", "request"}
  \/ pc[g] = "set" /\ task[g].op # "template"
  \/ pc[g] = "parse" /\ task[g].op # "watched"
  \/ pc[g] = "parsed" /\ ~(task[g].op = "watched" /\ task[g].text = Nothing)

Asked == owed \/ \E g \in Goroutines \ {LintWorker} : WillAsk(g)

Linted(f) == cache.errors[f] \notin Bad => cache.diags[f] = cache.modules[f]
Told(f) == client[f] = Shown(f)

AllLinted(S) == \A f \in Files \ S : Linted(f)
AllTold(S) == \A f \in AllFiles \ S : Told(f)
Sees == task[LintWorker].copy = cache.modules

\* What the lint run has done, and holds, if nothing has changed since it began.
RunOf(todo, file) ==
  \/ pc[LintWorker] = "idle" /\ (failed \/ \A f \in AllFiles : Linted(f) /\ Told(f))
  \/ /\ pc[LintWorker] = "lint" /\ Sees
     /\ \A f \in Files : f \in todo <=> cache.modules[f] # Nothing
  \/ pc[LintWorker] = "lintCheck" /\ Sees /\ AllLinted(todo)
  \/ pc[LintWorker] = "lintStore" /\ Sees /\ AllLinted(todo \union {file})
  \/ pc[LintWorker] = "lintFiles" /\ AllLinted({})
  \/ pc[LintWorker] = "lintSend" /\ AllLinted({}) /\ AllTold(todo)
  \/ pc[LintWorker] = "sendErrors" /\ AllLinted({}) /\ AllTold(todo \union {file})
  \/ /\ pc[LintWorker] = "sendDiags" /\ AllLinted({}) /\ AllTold(todo \union {file})
     /\ cache.errors[file] \notin Bad
  \/ /\ pc[LintWorker] = "notify" /\ AllLinted({}) /\ AllTold(todo \union {file})
     /\ task[LintWorker].diag = Shown(file)

RunIsRight == RunOf(task[LintWorker].todo, task[LintWorker].file)

\* Either a lint run is still to be asked for, or to begin, or the one that
\* goes on has seen the cache as it is.
ShownInv == Places /\ Grows /\ (Asked \/ RunIsRight)

-----------------------------------------------------------------------------
(* The steps of all but the lint worker.                                    *)

OnlyMoves(g) ==
  \A h \in Goroutines \ {g} : pc'[h] = pc[h] /\ task'[h] = task[h]

\* The step of g adds to the cache, if it changes it at all.
Adds(g) ==
  /\ ignoring' = {} /\ cache'.ignored = EveryFile(Nothing)
  /\ \A f \in Files : /\ cache.contents[f] # Nothing => cache'.contents[f] # Nothing
                      /\ cache.modules[f] # Nothing => cache'.modules[f] # Nothing
                      /\ cache'.diags[f] \in {cache.diags[f], Nothing}
  /\ HasText(pc'[g], task'[g])
  /\ (g = Templater /\ pc'[g] \in {"tmplDisk", "set"}) =>
       task'[g].file \in Files /\ cache'.contents[task'[g].file] # Nothing

\* Nothing that is shown changes.
Quiet ==
  /\ cache'.errors = cache.errors /\ cache'.diags = cache.diags
  /\ cache'.modules = cache.modules
  /\ \A f \in Files : cache'.contents[f] = Nothing <=> cache.contents[f] = Nothing
  /\ UNCHANGED <<client, owed, failed>>

\* If something does, g will ask for a lint run, or has asked.
Asks(g) ==
  /\ owed => owed'
  /\ WillAsk(g)' \/ owed' \/ (Quiet /\ ~WillAsk(g))

\* A lint run that goes on stays right when nothing shown changes.
LEMMA QuietKeepsRun ==
  ASSUME TypeInv, TypeInv', Quiet, pc'[LintWorker] = pc[LintWorker],
         task'[LintWorker] = task[LintWorker], RunIsRight
  PROVE  RunIsRight'
<1>1. AllFiles' = AllFiles
  BY DEF Quiet, AllFiles, HasContents
<1>2. /\ \A f : Linted(f)' <=> Linted(f)
      /\ \A f : Told(f)' <=> Told(f)
      /\ \A f : Shown(f)' = Shown(f)
  BY DEF Quiet, Linted, Told, Shown
<1>3. /\ \A S : AllLinted(S)' <=> AllLinted(S)
      /\ \A S : AllTold(S)' <=> AllTold(S)
      /\ Sees' <=> Sees
  BY <1>1, <1>2 DEF Quiet, AllLinted, AllTold, Sees
<1>4. cache'.errors = cache.errors /\ cache'.modules = cache.modules /\ failed' = failed
  BY DEF Quiet
<1> QED
  BY <1>1, <1>2, <1>3, <1>4 DEF RunIsRight, RunOf

\* What a step of another goroutine has to satisfy to keep the invariant.
LEMMA OtherKeeps ==
  ASSUME TypeInv, TypeInv', ShownInv, NEW g \in Goroutines \ {LintWorker},
         OnlyMoves(g), PlaceAt(g, pc'[g], task'[g]), Adds(g), Asks(g)
  PROVE  ShownInv'
<1>1. ConfigWorker \in Goroutines /\ Templater \in Goroutines /\ LintWorker \in Goroutines
  BY DEF Goroutines
<1>2. Places'
  BY DEF ShownInv, Places, OnlyMoves, PlaceAt
<1>3. pc'[LintWorker] = pc[LintWorker] /\ task'[LintWorker] = task[LintWorker]
  BY <1>1 DEF OnlyMoves
<1>4. Grows'
  <2>1. \A h \in Goroutines : HasText(pc'[h], task'[h])
    BY DEF ShownInv, Grows, Adds, OnlyMoves
  <2>2. pc'[Templater] \in {"tmplDisk", "set"} => cache'.contents[task'[Templater].file] # Nothing
    <3>1. CASE g = Templater
      BY <3>1 DEF Adds
    <3>2. CASE g # Templater
      <4>1. pc'[Templater] = pc[Templater] /\ task'[Templater] = task[Templater]
        BY <1>1, <3>2 DEF OnlyMoves
      <4>2. pc[Templater] \in {"tmplDisk", "set"} => task[Templater].file \in Files
        BY <1>1 DEF TypeInv, FitsAt, FileLess
      <4> QED
        BY <4>1, <4>2 DEF ShownInv, Grows, HasContents, Adds
    <3> QED
      BY <3>1, <3>2
  <2>3. \A f \in Files : cache'.diags[f] # Nothing => cache'.modules[f] # Nothing
    BY DEF ShownInv, Grows, Adds
  <2>4. pc'[LintWorker] \in {"lint", "lintCheck", "lintStore"} =>
          \A f \in Files : task'[LintWorker].copy[f] # Nothing => cache'.modules[f] # Nothing
    BY <1>3 DEF ShownInv, Grows, Adds
  <2> QED
    BY <2>1, <2>2, <2>3, <2>4 DEF Grows, Adds, HasContents, EveryFile, HasText
<1>5. (Asked \/ RunIsRight)'
  <2>1. CASE WillAsk(g)' \/ owed'
    BY <2>1 DEF Asked
  <2>2. CASE Quiet /\ ~WillAsk(g) /\ Asked
    <3>1. \A h \in Goroutines \ {g} : WillAsk(h) => WillAsk(h)'
      BY DEF OnlyMoves, WillAsk
    <3> QED
      BY <2>2, <3>1 DEF Asked, Asks
  <2>3. CASE Quiet /\ RunIsRight
    BY <1>3, <2>3, QuietKeepsRun
  <2> QED
    BY <2>1, <2>2, <2>3 DEF Asks, ShownInv
<1> QED
  BY <1>2, <1>4, <1>5 DEF ShownInv

\* The handlers and the state worker.
LEMMA PoolKeepsShown ==
  ASSUME TypeInv, TypeInv', ShownInv, NEW g \in Pool, Step(g)
  PROVE  ShownInv'
<1>1. /\ g \in Goroutines \ {LintWorker} /\ pc[g] \in Labels /\ task[g] \in TaskTypes
      /\ g \in DOMAIN pc /\ g \in DOMAIN task
      /\ pc[g] \notin FileLess => task[g].file \in Files
      /\ pc[g] \in {"module", "lines", "putMod", "putRefs"} => task[g].text \in Good
      /\ pc[g] = "errors" => task[g].text \in Texts
  BY GoroutinesAreDistinct DEF Goroutines, TypeInv, FitsAt
<1>2. /\ g \in Pool /\ g # ConfigWorker /\ g # Templater /\ g # LintWorker
      /\ PlaceAt(g, pc[g], task[g])
  BY GoroutinesAreDistinct DEF ShownInv, Places, Goroutines
<1>3. /\ cache \in CacheTypes /\ disk \in [Files -> MaybeText]
      /\ ignoring = {} /\ cache.ignored = EveryFile(Nothing)
      /\ HasText(pc[g], task[g])
      /\ pc[Templater] \in {"tmplDisk", "set"} => cache.contents[task[Templater].file] # Nothing
      /\ \A f \in Files : cache.diags[f] # Nothing => cache.modules[f] # Nothing
  <2>1. cache \in CacheTypes /\ disk \in [Files -> MaybeText]
    BY DEF TypeInv, MapsOK, WorldOK
  <2> QED
    BY <1>1, <2>1 DEF ShownInv, Grows, HasContents
<1>4. Nothing \notin Texts /\ Empty # Nothing /\ Template # Nothing /\ Nothing \notin Good
  BY TextsAreDistinct DEF Texts
<1>5. \/ Decide(g) \/ CheckTemplating(g) \/ SetContents(g) \/ RequestLint(g)
      \/ RequestTemplate(g) \/ ParseRead(g) \/ SetParseErrors(g) \/ SetModule(g)
      \/ SetLineCount(g) \/ PutFileMod(g) \/ PutFileRefs(g) \/ AfterParse(g)
      \/ CheckHasContents(g) \/ ReadDisk(g) \/ CompareContents(g) \/ WriteFromDisk(g)
      \/ FormatRead(g) \/ ClearFileDiagnostics(g) \/ CheckEmpty(g) \/ CheckEmptyOnDisk(g)
  <2>1. CASE MessageStep(g)
    BY <1>1, <1>2, <2>1 DEF MessageStep, PlaceAt, PoolPlaces, PoolOps,
       SetIgnored
  <2>2. CASE ParseStep(g)
    BY <1>1, <1>2, <2>2 DEF ParseStep, PlaceAt, PoolPlaces, PoolOps
  <2>3. CASE DiskStep(g)
    BY <1>1, <1>2, <2>3 DEF DiskStep, PlaceAt, PoolPlaces, PoolOps, Stat,
       RenameRead, RenameTarget
  <2>4. CASE DeleteStep(g)
    BY <1>1, <1>2, <2>4 DEF DeleteStep, PlaceAt, PoolPlaces, PoolOps,
       CacheStep, DeleteContents, DeleteIgnored, DeleteModule,
       DeleteDiagnostics, DeleteParseErrors, DeleteLineCount
  <2>5. CASE SendStep(g)
    BY <1>1, <1>2, <2>5 DEF SendStep, PlaceAt, PoolPlaces, PoolOps,
       SendErrors, SendDiags, Notify
  <2>6. CASE TemplateStep(g)
    BY <1>1, <1>2, <2>6 DEF TemplateStep, PlaceAt, PoolPlaces, PoolOps, CacheStep,
       MarkTemplating, ApplyTemplate, UnmarkTemplating, FixMismatch,
       MoveFrom, MoveTo, MoveSet, MovePut
  <2>7. CASE ConfigStep(g)
    BY <1>1, <1>2, <2>7 DEF ConfigStep, PlaceAt, PoolPlaces, PoolOps,
       CacheStep, MoveNext, RemoveFileMod, CopyIgnored, RestoreNext,
       ClearIgnored
  <2>8. CASE LintStep(g)
    BY <1>1, <1>2, <2>8 DEF LintStep, PlaceAt, PoolPlaces, PoolOps, CacheStep,
       Lint, LintCheck, SetFileDiagnostics, LintFiles, LintSend
  <2> QED
    BY <2>1, <2>2, <2>3, <2>4, <2>5, <2>6, <2>7, <2>8 DEF Step
<1>6. CASE Decide(g)
  <2>1. OnlyMoves(g)
    BY <1>6 DEF Decide, OnlyMoves, LocalStep, Goto, Finish, TypeInv
  <2>2. PlaceAt(g, pc'[g], task'[g])
    BY <1>1, <1>2, <1>3, <1>6 DEF Decide, PlaceAt, WatchedPlaces, PoolPlaces,
       PoolOps, Goto, Finish, TaskTypes
  <2>3. Adds(g)
    BY <1>1, <1>2, <1>3, <1>4, <1>6 DEF Decide, Adds, HasText, PlaceAt,
       WatchedPlaces, PoolPlaces, PoolOps, LocalStep, config, Goto, Finish,
       TaskTypes, CacheTypes
  <2>4. Asks(g)
    BY <1>1, <1>2, <1>3, <1>4, <1>6 DEF Decide, Asks, WillAsk, Quiet, PlaceAt,
       WatchedPlaces, PoolPlaces, PoolOps, LocalStep, outside, runs, Goto,
       Finish, TaskTypes, CacheTypes
  <2> QED
    BY <1>1, <2>1, <2>2, <2>3, <2>4, OtherKeeps
<1>7. CASE CheckTemplating(g)
  <2>1. OnlyMoves(g)
    BY <1>7 DEF CheckTemplating, OnlyMoves, LocalStep, Goto, TypeInv
  <2>2. PlaceAt(g, pc'[g], task'[g])
    BY <1>1, <1>2, <1>3, <1>7 DEF CheckTemplating, PlaceAt, WatchedPlaces,
       PoolPlaces, PoolOps, Goto, TaskTypes
  <2>3. Adds(g)
    BY <1>1, <1>2, <1>3, <1>4, <1>7 DEF CheckTemplating, Adds, HasText,
       PlaceAt, WatchedPlaces, PoolPlaces, PoolOps, LocalStep, config, Goto,
       TaskTypes, CacheTypes
  <2>4. Asks(g)
    BY <1>1, <1>2, <1>3, <1>4, <1>7 DEF CheckTemplating, Asks, WillAsk, Quiet,
       PlaceAt, WatchedPlaces, PoolPlaces, PoolOps, LocalStep, outside, runs,
       Goto, TaskTypes, CacheTypes
  <2> QED
    BY <1>1, <2>1, <2>2, <2>3, <2>4, OtherKeeps
<1>8. CASE SetContents(g)
  <2>1. OnlyMoves(g)
    BY <1>8 DEF SetContents, OnlyMoves, CacheStep, Goto, TypeInv
  <2>2. PlaceAt(g, pc'[g], task'[g])
    BY <1>1, <1>2, <1>3, <1>8 DEF SetContents, PlaceAt, WatchedPlaces,
       PoolPlaces, PoolOps, CacheStep, Goto, TaskTypes
  <2>3. Adds(g)
    BY <1>1, <1>2, <1>3, <1>4, <1>8 DEF SetContents, Adds, HasText, PlaceAt,
       WatchedPlaces, PoolPlaces, PoolOps, CacheStep, config, Goto, TaskTypes,
       CacheTypes
  <2>4. Asks(g)
    <3>0. pc[g] = "set"
      BY <1>8 DEF SetContents, CacheStep
    <3>1. pc'[g] = "parse" /\ task'[g].op # "watched"
      <4>1. task[g].op \in PoolOps /\ task[g].op # "watched"
        BY <1>2, <3>0 DEF PlaceAt, WatchedPlaces
      <4> QED
        BY <1>1, <1>8, <4>1 DEF SetContents, CacheStep, Goto, PoolOps
    <3>2. WillAsk(g)' /\ (owed => owed')
      BY <1>8, <3>1 DEF SetContents, CacheStep, runs, WillAsk
    <3> QED
      BY <3>2 DEF Asks
  <2> QED
    BY <1>1, <2>1, <2>2, <2>3, <2>4, OtherKeeps
<1>9. CASE RequestLint(g)
  <2>1. OnlyMoves(g)
    BY <1>9 DEF RequestLint, OnlyMoves, Goto, Finish, TypeInv
  <2>2. PlaceAt(g, pc'[g], task'[g])
    BY <1>1, <1>2, <1>3, <1>9 DEF RequestLint, PlaceAt, WatchedPlaces,
       PoolPlaces, PoolOps, Goto, Finish, TaskTypes
  <2>3. Adds(g)
    BY <1>1, <1>2, <1>3, <1>4, <1>9 DEF RequestLint, Adds, HasText, PlaceAt,
       WatchedPlaces, PoolPlaces, PoolOps, config, Goto, Finish, TaskTypes,
       CacheTypes
  <2>4. Asks(g)
    BY <1>1, <1>2, <1>3, <1>4, <1>9 DEF RequestLint, Asks, WillAsk, Quiet,
       PlaceAt, WatchedPlaces, PoolPlaces, PoolOps, outside, Goto, Finish,
       TaskTypes, CacheTypes
  <2> QED
    BY <1>1, <2>1, <2>2, <2>3, <2>4, OtherKeeps
<1>10. CASE RequestTemplate(g)
  <2>1. OnlyMoves(g)
    BY <1>10 DEF RequestTemplate, OnlyMoves, Finish, TypeInv
  <2>2. PlaceAt(g, pc'[g], task'[g])
    BY <1>1, <1>2, <1>3, <1>10 DEF RequestTemplate, PlaceAt, WatchedPlaces,
       PoolPlaces, PoolOps, Finish, TaskTypes
  <2>3. Adds(g)
    BY <1>1, <1>2, <1>3, <1>4, <1>10 DEF RequestTemplate, Adds, HasText,
       PlaceAt, WatchedPlaces, PoolPlaces, PoolOps, Finish, TaskTypes,
       CacheTypes
  <2>4. Asks(g)
    BY <1>1, <1>2, <1>3, <1>4, <1>10 DEF RequestTemplate, Asks, WillAsk,
       Quiet, PlaceAt, WatchedPlaces, PoolPlaces, PoolOps, outside, runs,
       Finish, TaskTypes, CacheTypes
  <2> QED
    BY <1>1, <2>1, <2>2, <2>3, <2>4, OtherKeeps
<1>11. CASE ParseRead(g)
  <2>1. OnlyMoves(g)
    BY <1>11 DEF ParseRead, OnlyMoves, LocalStep, Goto, TypeInv
  <2>2. PlaceAt(g, pc'[g], task'[g])
    BY <1>1, <1>2, <1>3, <1>11 DEF ParseRead, PlaceAt, WatchedPlaces,
       PoolPlaces, PoolOps, Goto, TaskTypes
  <2>3. Adds(g)
    BY <1>1, <1>2, <1>3, <1>4, <1>11 DEF ParseRead, Adds, HasText, PlaceAt,
       WatchedPlaces, PoolPlaces, PoolOps, LocalStep, config, Goto, TaskTypes,
       CacheTypes
  <2>4. Asks(g)
    BY <1>1, <1>2, <1>3, <1>4, <1>11 DEF ParseRead, Asks, WillAsk, Quiet,
       PlaceAt, WatchedPlaces, PoolPlaces, PoolOps, LocalStep, outside, runs,
       Goto, TaskTypes, CacheTypes
  <2> QED
    BY <1>1, <2>1, <2>2, <2>3, <2>4, OtherKeeps
<1>12. CASE SetParseErrors(g)
  <2>1. OnlyMoves(g)
    BY <1>12 DEF SetParseErrors, OnlyMoves, CacheStep, Goto, TypeInv
  <2>2. PlaceAt(g, pc'[g], task'[g])
    BY <1>1, <1>2, <1>3, <1>12 DEF SetParseErrors, PlaceAt, WatchedPlaces,
       PoolPlaces, PoolOps, CacheStep, Goto, TaskTypes
  <2>3. Adds(g)
    BY <1>1, <1>2, <1>3, <1>4, <1>12 DEF SetParseErrors, Adds, HasText,
       PlaceAt, WatchedPlaces, PoolPlaces, PoolOps, CacheStep, config, Goto,
       TaskTypes, CacheTypes
  <2>4. Asks(g)
    BY <1>1, <1>2, <1>3, <1>4, <1>12 DEF SetParseErrors, Asks, WillAsk, Quiet,
       PlaceAt, WatchedPlaces, PoolPlaces, PoolOps, CacheStep, outside, runs,
       Goto, TaskTypes, CacheTypes
  <2> QED
    BY <1>1, <2>1, <2>2, <2>3, <2>4, OtherKeeps
<1>13. CASE SetModule(g)
  <2>1. OnlyMoves(g)
    BY <1>13 DEF SetModule, OnlyMoves, CacheStep, Goto, TypeInv
  <2>2. PlaceAt(g, pc'[g], task'[g])
    BY <1>1, <1>2, <1>3, <1>13 DEF SetModule, PlaceAt, WatchedPlaces,
       PoolPlaces, PoolOps, CacheStep, Goto, TaskTypes
  <2>3. Adds(g)
    BY <1>1, <1>2, <1>3, <1>4, <1>13 DEF SetModule, Adds, HasText, PlaceAt,
       WatchedPlaces, PoolPlaces, PoolOps, CacheStep, config, Goto, TaskTypes,
       CacheTypes
  <2>4. Asks(g)
    BY <1>1, <1>2, <1>3, <1>4, <1>13 DEF SetModule, Asks, WillAsk, Quiet,
       PlaceAt, WatchedPlaces, PoolPlaces, PoolOps, CacheStep, outside, runs,
       Goto, TaskTypes, CacheTypes
  <2> QED
    BY <1>1, <2>1, <2>2, <2>3, <2>4, OtherKeeps
<1>14. CASE SetLineCount(g)
  <2>1. OnlyMoves(g)
    BY <1>14 DEF SetLineCount, OnlyMoves, CacheStep, Goto, TypeInv
  <2>2. PlaceAt(g, pc'[g], task'[g])
    BY <1>1, <1>2, <1>3, <1>14 DEF SetLineCount, PlaceAt, WatchedPlaces,
       PoolPlaces, PoolOps, CacheStep, Goto, TaskTypes
  <2>3. Adds(g)
    BY <1>1, <1>2, <1>3, <1>4, <1>14 DEF SetLineCount, Adds, HasText, PlaceAt,
       WatchedPlaces, PoolPlaces, PoolOps, CacheStep, config, Goto, TaskTypes,
       CacheTypes
  <2>4. Asks(g)
    BY <1>1, <1>2, <1>3, <1>4, <1>14 DEF SetLineCount, Asks, WillAsk, Quiet,
       PlaceAt, WatchedPlaces, PoolPlaces, PoolOps, CacheStep, outside, runs,
       Goto, TaskTypes, CacheTypes
  <2> QED
    BY <1>1, <2>1, <2>2, <2>3, <2>4, OtherKeeps
<1>15. CASE PutFileMod(g)
  <2>1. OnlyMoves(g)
    BY <1>15 DEF PutFileMod, OnlyMoves, Goto, TypeInv, config
  <2>2. PlaceAt(g, pc'[g], task'[g])
    BY <1>1, <1>2, <1>3, <1>15 DEF PutFileMod, PlaceAt, WatchedPlaces,
       PoolPlaces, PoolOps, Goto, TaskTypes, config
  <2>3. Adds(g)
    BY <1>1, <1>2, <1>3, <1>4, <1>15 DEF PutFileMod, Adds, HasText, PlaceAt,
       WatchedPlaces, PoolPlaces, PoolOps, config, Goto, TaskTypes, CacheTypes
  <2>4. Asks(g)
    BY <1>1, <1>2, <1>3, <1>4, <1>15 DEF PutFileMod, Asks, WillAsk, Quiet,
       PlaceAt, WatchedPlaces, PoolPlaces, PoolOps, outside, runs, Goto,
       TaskTypes, CacheTypes, config
  <2> QED
    BY <1>1, <2>1, <2>2, <2>3, <2>4, OtherKeeps
<1>16. CASE PutFileRefs(g)
  <2>1. OnlyMoves(g)
    BY <1>16 DEF PutFileRefs, OnlyMoves, Goto, TypeInv, config
  <2>2. PlaceAt(g, pc'[g], task'[g])
    BY <1>1, <1>2, <1>3, <1>16 DEF PutFileRefs, PlaceAt, WatchedPlaces,
       PoolPlaces, PoolOps, Goto, TaskTypes, config
  <2>3. Adds(g)
    BY <1>1, <1>2, <1>3, <1>4, <1>16 DEF PutFileRefs, Adds, HasText, PlaceAt,
       WatchedPlaces, PoolPlaces, PoolOps, config, Goto, TaskTypes, CacheTypes
  <2>4. Asks(g)
    BY <1>1, <1>2, <1>3, <1>4, <1>16 DEF PutFileRefs, Asks, WillAsk, Quiet,
       PlaceAt, WatchedPlaces, PoolPlaces, PoolOps, outside, runs, Goto,
       TaskTypes, CacheTypes, config
  <2> QED
    BY <1>1, <2>1, <2>2, <2>3, <2>4, OtherKeeps
<1>17. CASE AfterParse(g)
  <2>1. OnlyMoves(g)
    BY <1>17 DEF AfterParse, OnlyMoves, LocalStep, Goto, Finish, TypeInv
  <2>2. PlaceAt(g, pc'[g], task'[g])
    BY <1>1, <1>2, <1>3, <1>17 DEF AfterParse, PlaceAt, WatchedPlaces,
       PoolPlaces, PoolOps, Goto, Finish, TaskTypes
  <2>3. Adds(g)
    BY <1>1, <1>2, <1>3, <1>4, <1>17 DEF AfterParse, Adds, HasText, PlaceAt,
       WatchedPlaces, PoolPlaces, PoolOps, LocalStep, config, Goto, Finish,
       TaskTypes, CacheTypes
  <2>4. Asks(g)
    <3>1. owed' = owed /\ pc[g] = "parsed" /\ Quiet
      BY <1>17 DEF AfterParse, LocalStep, outside, runs, Quiet
    <3>2. CASE task[g].op = "load"
      <4>1. pc'[g] = "parse" /\ task'[g].op = "loaded"
        BY <1>1, <1>17, <3>2 DEF AfterParse, Goto, TaskTypes
      <4> QED
        BY <3>1, <4>1 DEF Asks, WillAsk
    <3>3. CASE task[g].op = "watched" /\ task[g].text = Nothing
      BY <3>1, <3>3 DEF Asks, WillAsk
    <3>4. CASE task[g].op # "load" /\ ~(task[g].op = "watched" /\ task[g].text = Nothing)
      <4>0. task[g].op \in PoolOps
        BY <1>2, <3>1 DEF PlaceAt
      <4>1. task[g].op # "reload"
        BY <4>0 DEF PoolOps
      <4>2. Goto(g, "request")
        BY <1>17, <3>4, <4>1 DEF AfterParse
      <4> QED
        BY <1>1, <3>1, <4>2 DEF Goto, Asks, WillAsk
    <3> QED
      BY <3>2, <3>3, <3>4
  <2> QED
    BY <1>1, <2>1, <2>2, <2>3, <2>4, OtherKeeps
<1>18. CASE CheckHasContents(g)
  <2>1. OnlyMoves(g)
    BY <1>18 DEF CheckHasContents, OnlyMoves, LocalStep, Goto, Finish, TypeInv
  <2>2. PlaceAt(g, pc'[g], task'[g])
    BY <1>1, <1>2, <1>3, <1>18 DEF CheckHasContents, PlaceAt, WatchedPlaces,
       PoolPlaces, PoolOps, Goto, Finish, TaskTypes
  <2>3. Adds(g)
    BY <1>1, <1>2, <1>3, <1>4, <1>18 DEF CheckHasContents, Adds, HasText,
       PlaceAt, WatchedPlaces, PoolPlaces, PoolOps, LocalStep, config, Goto,
       Finish, TaskTypes, CacheTypes, HasContents
  <2>4. Asks(g)
    BY <1>1, <1>2, <1>3, <1>4, <1>18 DEF CheckHasContents, Asks, WillAsk,
       Quiet, PlaceAt, WatchedPlaces, PoolPlaces, PoolOps, LocalStep, outside,
       runs, Goto, Finish, TaskTypes, CacheTypes
  <2> QED
    BY <1>1, <2>1, <2>2, <2>3, <2>4, OtherKeeps
<1>19. CASE ReadDisk(g)
  <2>1. OnlyMoves(g)
    BY <1>19 DEF ReadDisk, OnlyMoves, LocalStep, Goto, Finish, TypeInv, Target
  <2>2. PlaceAt(g, pc'[g], task'[g])
    BY <1>1, <1>2, <1>3, <1>19 DEF ReadDisk, PlaceAt, WatchedPlaces,
       PoolPlaces, PoolOps, Goto, Finish, TaskTypes, Target
  <2>3. Adds(g)
    BY <1>1, <1>2, <1>3, <1>4, <1>19 DEF ReadDisk, Adds, HasText, PlaceAt,
       WatchedPlaces, PoolPlaces, PoolOps, LocalStep, config, Goto, Finish,
       TaskTypes, CacheTypes, Target
  <2>4. Asks(g)
    BY <1>1, <1>2, <1>3, <1>4, <1>19 DEF ReadDisk, Asks, WillAsk, Quiet,
       PlaceAt, WatchedPlaces, PoolPlaces, PoolOps, LocalStep, outside, runs,
       Goto, Finish, TaskTypes, CacheTypes, Target
  <2> QED
    BY <1>1, <2>1, <2>2, <2>3, <2>4, OtherKeeps
<1>20. CASE CompareContents(g)
  <2>1. OnlyMoves(g)
    BY <1>20 DEF CompareContents, OnlyMoves, LocalStep, Goto, Finish, TypeInv,
       AfterUpdate, Target
  <2>2. PlaceAt(g, pc'[g], task'[g])
    BY <1>1, <1>2, <1>3, <1>20 DEF CompareContents, PlaceAt, WatchedPlaces,
       PoolPlaces, PoolOps, Goto, Finish, TaskTypes, AfterUpdate, Target
  <2>3. Adds(g)
    BY <1>1, <1>2, <1>3, <1>4, <1>20 DEF CompareContents, Adds, HasText,
       PlaceAt, WatchedPlaces, PoolPlaces, PoolOps, LocalStep, config, Goto,
       Finish, TaskTypes, CacheTypes, AfterUpdate, Target
  <2>4. Asks(g)
    BY <1>1, <1>2, <1>3, <1>4, <1>20 DEF CompareContents, Asks, WillAsk,
       Quiet, PlaceAt, WatchedPlaces, PoolPlaces, PoolOps, LocalStep, outside,
       runs, Goto, Finish, TaskTypes, CacheTypes, AfterUpdate, Target
  <2> QED
    BY <1>1, <2>1, <2>2, <2>3, <2>4, OtherKeeps
<1>21. CASE WriteFromDisk(g)
  <2>1. OnlyMoves(g)
    BY <1>21 DEF WriteFromDisk, OnlyMoves, CacheStep, Goto, TypeInv,
       AfterUpdate, Target
  <2>2. PlaceAt(g, pc'[g], task'[g])
    BY <1>1, <1>2, <1>3, <1>21 DEF WriteFromDisk, PlaceAt, WatchedPlaces,
       PoolPlaces, PoolOps, CacheStep, Goto, TaskTypes, AfterUpdate, Target
  <2>3. Adds(g)
    BY <1>1, <1>2, <1>3, <1>4, <1>21 DEF WriteFromDisk, Adds, HasText,
       PlaceAt, WatchedPlaces, PoolPlaces, PoolOps, CacheStep, config, Goto,
       TaskTypes, CacheTypes, AfterUpdate, Target
  <2>4. Asks(g)
    <3>1. pc'[g] = "parse" /\ task'[g].op # "watched"
      <4>0. pc[g] = "write"
        BY <1>21 DEF WriteFromDisk, CacheStep
      <4>1. task[g].op \in PoolOps /\ task[g].op # "watched"
        BY <1>2, <4>0 DEF PlaceAt, WatchedPlaces
      <4> QED
        BY <1>1, <1>21, <4>1 DEF WriteFromDisk, AfterUpdate, CacheStep, Goto,
           PoolOps
    <3>2. WillAsk(g)' /\ (owed => owed')
      BY <1>21, <3>1 DEF WriteFromDisk, CacheStep, runs, WillAsk
    <3> QED
      BY <3>2 DEF Asks
  <2> QED
    BY <1>1, <2>1, <2>2, <2>3, <2>4, OtherKeeps
<1>22. CASE FormatRead(g)
  <2>1. OnlyMoves(g)
    BY <1>22 DEF FormatRead, OnlyMoves, LocalStep, Goto, Finish, TypeInv
  <2>2. PlaceAt(g, pc'[g], task'[g])
    BY <1>1, <1>2, <1>3, <1>22 DEF FormatRead, PlaceAt, WatchedPlaces,
       PoolPlaces, PoolOps, Goto, Finish, TaskTypes
  <2>3. Adds(g)
    BY <1>1, <1>2, <1>3, <1>4, <1>22 DEF FormatRead, Adds, HasText, PlaceAt,
       WatchedPlaces, PoolPlaces, PoolOps, LocalStep, config, Goto, Finish,
       TaskTypes, CacheTypes
  <2>4. Asks(g)
    BY <1>1, <1>2, <1>3, <1>4, <1>22 DEF FormatRead, Asks, WillAsk, Quiet,
       PlaceAt, WatchedPlaces, PoolPlaces, PoolOps, LocalStep, outside, runs,
       Goto, Finish, TaskTypes, CacheTypes
  <2> QED
    BY <1>1, <2>1, <2>2, <2>3, <2>4, OtherKeeps
<1>23. CASE ClearFileDiagnostics(g)
  <2>1. OnlyMoves(g)
    BY <1>23 DEF ClearFileDiagnostics, OnlyMoves, CacheStep, Goto, TypeInv,
       EveryFile
  <2>2. PlaceAt(g, pc'[g], task'[g])
    BY <1>1, <1>2, <1>3, <1>23 DEF ClearFileDiagnostics, PlaceAt,
       WatchedPlaces, PoolPlaces, PoolOps, CacheStep, Goto, TaskTypes,
       EveryFile
  <2>3. Adds(g)
    <3>1. cache' = [cache EXCEPT !.diags = EveryFile(Nothing)] /\ ignoring' = ignoring
      BY <1>23 DEF ClearFileDiagnostics, CacheStep, config
    <3>2. /\ cache'.contents = cache.contents /\ cache'.modules = cache.modules
          /\ cache'.ignored = cache.ignored /\ cache'.diags = EveryFile(Nothing)
      BY <1>3, <3>1 DEF CacheTypes
    <3>3. pc'[g] = "set" /\ task'[g] = task[g]
      BY <1>1, <1>23 DEF ClearFileDiagnostics, CacheStep, Goto
    <3>4. HasText(pc'[g], task'[g])
      <4>1. task[g].text # Nothing
        BY <1>3, <1>23 DEF HasText, ClearFileDiagnostics, CacheStep
      <4> QED
        BY <3>3, <4>1 DEF HasText
    <3> QED
      BY <1>2, <1>3, <3>1, <3>2, <3>4 DEF Adds, EveryFile
  <2>4. Asks(g)
    <3>1. pc'[g] = "set" /\ task'[g].op # "template"
      <4>0. pc[g] = "clear"
        BY <1>23 DEF ClearFileDiagnostics, CacheStep
      <4>1. task[g].op \in PoolOps
        BY <1>2, <4>0 DEF PlaceAt
      <4> QED
        BY <1>1, <1>23, <4>1 DEF ClearFileDiagnostics, CacheStep, Goto,
           PoolOps
    <3>2. WillAsk(g)' /\ (owed => owed')
      BY <1>23, <3>1 DEF ClearFileDiagnostics, CacheStep, runs, WillAsk
    <3> QED
      BY <3>2 DEF Asks
  <2> QED
    BY <1>1, <2>1, <2>2, <2>3, <2>4, OtherKeeps
<1>24. CASE CheckEmpty(g)
  <2>1. OnlyMoves(g)
    BY <1>24 DEF CheckEmpty, OnlyMoves, LocalStep, Goto, Finish, TypeInv,
       GiveUpTemplate
  <2>2. PlaceAt(g, pc'[g], task'[g])
    BY <1>1, <1>2, <1>3, <1>24 DEF CheckEmpty, PlaceAt, WatchedPlaces,
       PoolPlaces, PoolOps, Goto, Finish, TaskTypes, GiveUpTemplate
  <2>3. Adds(g)
    BY <1>1, <1>2, <1>3, <1>4, <1>24 DEF CheckEmpty, Adds, HasText, PlaceAt,
       WatchedPlaces, PoolPlaces, PoolOps, LocalStep, config, Goto, Finish,
       TaskTypes, CacheTypes, GiveUpTemplate
  <2>4. Asks(g)
    BY <1>1, <1>2, <1>3, <1>4, <1>24 DEF CheckEmpty, Asks, WillAsk, Quiet,
       PlaceAt, WatchedPlaces, PoolPlaces, PoolOps, LocalStep, outside, runs,
       Goto, Finish, TaskTypes, CacheTypes, GiveUpTemplate
  <2> QED
    BY <1>1, <2>1, <2>2, <2>3, <2>4, OtherKeeps
<1>25. CASE CheckEmptyOnDisk(g)
  <2>1. OnlyMoves(g)
    BY <1>25 DEF CheckEmptyOnDisk, OnlyMoves, LocalStep, Goto, Finish,
       TypeInv, GiveUpTemplate
  <2>2. PlaceAt(g, pc'[g], task'[g])
    BY <1>1, <1>2, <1>3, <1>25 DEF CheckEmptyOnDisk, PlaceAt, WatchedPlaces,
       PoolPlaces, PoolOps, Goto, Finish, TaskTypes, GiveUpTemplate
  <2>3. Adds(g)
    BY <1>1, <1>2, <1>3, <1>4, <1>25 DEF CheckEmptyOnDisk, Adds, HasText,
       PlaceAt, WatchedPlaces, PoolPlaces, PoolOps, LocalStep, config, Goto,
       Finish, TaskTypes, CacheTypes, GiveUpTemplate
  <2>4. Asks(g)
    BY <1>1, <1>2, <1>3, <1>4, <1>25 DEF CheckEmptyOnDisk, Asks, WillAsk,
       Quiet, PlaceAt, WatchedPlaces, PoolPlaces, PoolOps, LocalStep, outside,
       runs, Goto, Finish, TaskTypes, CacheTypes, GiveUpTemplate
  <2> QED
    BY <1>1, <2>1, <2>2, <2>3, <2>4, OtherKeeps
<1> QED
  BY <1>5, <1>6, <1>7, <1>8, <1>9, <1>10, <1>11, <1>12, <1>13, <1>14, <1>15,
     <1>16, <1>17, <1>18, <1>19, <1>20, <1>21, <1>22, <1>23, <1>24, <1>25

\* The loading of a config that ignores nothing.
LEMMA ConfigKeepsShown ==
  ASSUME TypeInv, TypeInv', ShownInv, NEW g \in {ConfigWorker}, Step(g)
  PROVE  ShownInv'
<1>1. /\ g \in Goroutines \ {LintWorker} /\ pc[g] \in Labels /\ task[g] \in TaskTypes
      /\ g \in DOMAIN pc /\ g \in DOMAIN task
      /\ pc[g] \notin FileLess => task[g].file \in Files
      /\ pc[g] \in {"module", "lines", "putMod", "putRefs"} => task[g].text \in Good
      /\ pc[g] = "errors" => task[g].text \in Texts
  BY GoroutinesAreDistinct DEF Goroutines, TypeInv, FitsAt
<1>2. /\ g = ConfigWorker /\ g \notin Pool /\ g # Templater /\ g # LintWorker
      /\ PlaceAt(g, pc[g], task[g])
  BY GoroutinesAreDistinct DEF ShownInv, Places, Goroutines
<1>3. /\ cache \in CacheTypes /\ disk \in [Files -> MaybeText]
      /\ ignoring = {} /\ cache.ignored = EveryFile(Nothing)
      /\ HasText(pc[g], task[g])
      /\ pc[Templater] \in {"tmplDisk", "set"} => cache.contents[task[Templater].file] # Nothing
      /\ \A f \in Files : cache.diags[f] # Nothing => cache.modules[f] # Nothing
  <2>1. cache \in CacheTypes /\ disk \in [Files -> MaybeText]
    BY DEF TypeInv, MapsOK, WorldOK
  <2> QED
    BY <1>1, <2>1 DEF ShownInv, Grows, HasContents
<1>4. Nothing \notin Texts /\ Empty # Nothing /\ Template # Nothing /\ Nothing \notin Good
  BY TextsAreDistinct DEF Texts
<1>5. \/ MoveNext(g) \/ CopyIgnored(g) \/ RestoreNext(g) \/ RequestLint(g)
  <2>1. CASE MessageStep(g)
    BY <1>1, <1>2, <2>1 DEF MessageStep, PlaceAt, ConfigPlaces, CacheStep,
       Decide, SetIgnored, CheckTemplating, SetContents, RequestTemplate
  <2>2. CASE ParseStep(g)
    BY <1>1, <1>2, <2>2 DEF ParseStep, PlaceAt, ConfigPlaces, CacheStep,
       ParseRead, SetParseErrors, SetModule, SetLineCount, PutFileMod,
       PutFileRefs, AfterParse
  <2>3. CASE DiskStep(g)
    BY <1>1, <1>2, <2>3 DEF DiskStep, PlaceAt, ConfigPlaces, CacheStep,
       CheckHasContents, ReadDisk, CompareContents, WriteFromDisk, Stat,
       RenameRead, RenameTarget
  <2>4. CASE DeleteStep(g)
    BY <1>1, <1>2, <2>4 DEF DeleteStep, PlaceAt, ConfigPlaces, CacheStep,
       DeleteContents, DeleteIgnored, DeleteModule, DeleteDiagnostics,
       DeleteParseErrors, DeleteLineCount
  <2>5. CASE SendStep(g)
    BY <1>1, <1>2, <2>5 DEF SendStep, PlaceAt, ConfigPlaces, SendErrors,
       SendDiags, Notify
  <2>6. CASE TemplateStep(g)
    BY <1>1, <1>2, <2>6 DEF TemplateStep, PlaceAt, ConfigPlaces, CacheStep,
       FormatRead, ClearFileDiagnostics, MarkTemplating, CheckEmpty,
       CheckEmptyOnDisk, ApplyTemplate, UnmarkTemplating, FixMismatch,
       MoveFrom, MoveTo, MoveSet, MovePut
  <2>7. CASE ConfigStep(g)
    BY <1>1, <1>2, <2>7 DEF ConfigStep, PlaceAt, ConfigPlaces, CacheStep,
       RemoveFileMod, ClearIgnored
  <2>8. CASE LintStep(g)
    BY <1>1, <1>2, <2>8 DEF LintStep, PlaceAt, ConfigPlaces, CacheStep, Lint,
       LintCheck, SetFileDiagnostics, LintFiles, LintSend
  <2> QED
    BY <2>1, <2>2, <2>3, <2>4, <2>5, <2>6, <2>7, <2>8 DEF Step
<1>6. CASE MoveNext(g)
  <2>1. OnlyMoves(g)
    BY <1>6 DEF MoveNext, OnlyMoves, LocalStep, Goto, TypeInv, HasContents
  <2>2. PlaceAt(g, pc'[g], task'[g])
    BY <1>1, <1>2, <1>3, <1>6 DEF MoveNext, PlaceAt, WatchedPlaces,
       ConfigPlaces, Goto, TaskTypes, HasContents
  <2>3. Adds(g)
    BY <1>1, <1>2, <1>3, <1>4, <1>6 DEF MoveNext, Adds, HasText, PlaceAt,
       WatchedPlaces, ConfigPlaces, LocalStep, config, Goto, TaskTypes,
       CacheTypes, HasContents
  <2>4. Asks(g)
    BY <1>1, <1>2, <1>3, <1>4, <1>6 DEF MoveNext, Asks, WillAsk, Quiet,
       PlaceAt, WatchedPlaces, ConfigPlaces, LocalStep, outside, runs, Goto,
       TaskTypes, CacheTypes, HasContents
  <2> QED
    BY <1>1, <2>1, <2>2, <2>3, <2>4, OtherKeeps
<1>7. CASE CopyIgnored(g)
  <2>1. OnlyMoves(g)
    BY <1>7 DEF CopyIgnored, OnlyMoves, LocalStep, Goto, TypeInv
  <2>2. PlaceAt(g, pc'[g], task'[g])
    BY <1>1, <1>2, <1>3, <1>7 DEF CopyIgnored, PlaceAt, WatchedPlaces,
       ConfigPlaces, Goto, TaskTypes, EveryFile
  <2>3. Adds(g)
    BY <1>1, <1>2, <1>3, <1>4, <1>7 DEF CopyIgnored, Adds, HasText, PlaceAt,
       WatchedPlaces, ConfigPlaces, LocalStep, config, Goto, TaskTypes,
       CacheTypes, EveryFile
  <2>4. Asks(g)
    BY <1>1, <1>2, <1>3, <1>4, <1>7 DEF CopyIgnored, Asks, WillAsk, Quiet,
       PlaceAt, WatchedPlaces, ConfigPlaces, LocalStep, outside, runs, Goto,
       TaskTypes, CacheTypes, EveryFile
  <2> QED
    BY <1>1, <2>1, <2>2, <2>3, <2>4, OtherKeeps
<1>8. CASE RestoreNext(g)
  <2>1. OnlyMoves(g)
    BY <1>8 DEF RestoreNext, OnlyMoves, LocalStep, Goto, TypeInv, HasContents
  <2>2. PlaceAt(g, pc'[g], task'[g])
    BY <1>1, <1>2, <1>3, <1>8 DEF RestoreNext, PlaceAt, WatchedPlaces,
       ConfigPlaces, Goto, TaskTypes, HasContents
  <2>3. Adds(g)
    BY <1>1, <1>2, <1>3, <1>4, <1>8 DEF RestoreNext, Adds, HasText, PlaceAt,
       WatchedPlaces, ConfigPlaces, LocalStep, config, Goto, TaskTypes,
       CacheTypes, HasContents
  <2>4. Asks(g)
    BY <1>1, <1>2, <1>3, <1>4, <1>8 DEF RestoreNext, Asks, WillAsk, Quiet,
       PlaceAt, WatchedPlaces, ConfigPlaces, LocalStep, outside, runs, Goto,
       TaskTypes, CacheTypes, HasContents
  <2> QED
    BY <1>1, <2>1, <2>2, <2>3, <2>4, OtherKeeps
<1>9. CASE RequestLint(g)
  <2>1. OnlyMoves(g)
    BY <1>9 DEF RequestLint, OnlyMoves, Goto, Finish, TypeInv
  <2>2. PlaceAt(g, pc'[g], task'[g])
    BY <1>1, <1>2, <1>3, <1>9 DEF RequestLint, PlaceAt, WatchedPlaces,
       ConfigPlaces, Goto, Finish, TaskTypes
  <2>3. Adds(g)
    BY <1>1, <1>2, <1>3, <1>4, <1>9 DEF RequestLint, Adds, HasText, PlaceAt,
       WatchedPlaces, ConfigPlaces, config, Goto, Finish, TaskTypes,
       CacheTypes
  <2>4. Asks(g)
    BY <1>1, <1>2, <1>3, <1>4, <1>9 DEF RequestLint, Asks, WillAsk, Quiet,
       PlaceAt, WatchedPlaces, ConfigPlaces, outside, Goto, Finish, TaskTypes,
       CacheTypes
  <2> QED
    BY <1>1, <2>1, <2>2, <2>3, <2>4, OtherKeeps
<1> QED
  BY <1>5, <1>6, <1>7, <1>8, <1>9

\* The template worker.
LEMMA TemplaterKeepsShown ==
  ASSUME NothingErased, TypeInv, TypeInv', ShownInv, NEW g \in {Templater}, Step(g)
  PROVE  ShownInv'
<1>1. /\ g \in Goroutines \ {LintWorker} /\ pc[g] \in Labels /\ task[g] \in TaskTypes
      /\ g \in DOMAIN pc /\ g \in DOMAIN task
      /\ pc[g] \notin FileLess => task[g].file \in Files
      /\ pc[g] \in {"module", "lines", "putMod", "putRefs"} => task[g].text \in Good
      /\ pc[g] = "errors" => task[g].text \in Texts
  BY GoroutinesAreDistinct DEF Goroutines, TypeInv, FitsAt
<1>2. /\ g = Templater /\ g \notin Pool /\ g # ConfigWorker /\ g # LintWorker
      /\ PlaceAt(g, pc[g], task[g])
  BY GoroutinesAreDistinct DEF ShownInv, Places, Goroutines
<1>3. /\ cache \in CacheTypes /\ disk \in [Files -> MaybeText]
      /\ ignoring = {} /\ cache.ignored = EveryFile(Nothing)
      /\ HasText(pc[g], task[g])
      /\ pc[Templater] \in {"tmplDisk", "set"} => cache.contents[task[Templater].file] # Nothing
      /\ \A f \in Files : cache.diags[f] # Nothing => cache.modules[f] # Nothing
  <2>1. cache \in CacheTypes /\ disk \in [Files -> MaybeText]
    BY DEF TypeInv, MapsOK, WorldOK
  <2> QED
    BY <1>1, <2>1 DEF ShownInv, Grows, HasContents
<1>4. Nothing \notin Texts /\ Empty # Nothing /\ Template # Nothing /\ Nothing \notin Good
  BY TextsAreDistinct DEF Texts
<1>5. \/ MarkTemplating(g) \/ CheckEmpty(g) \/ CheckEmptyOnDisk(g) \/ SetContents(g)
      \/ FixMismatch(g) \/ ApplyTemplate(g) \/ RequestLint(g) \/ UnmarkTemplating(g)
  <2>1. CASE MessageStep(g)
    BY <1>1, <1>2, <2>1 DEF MessageStep, PlaceAt, TemplaterPlaces, Decide,
       SetIgnored, CheckTemplating, RequestTemplate
  <2>2. CASE ParseStep(g)
    BY <1>1, <1>2, <2>2 DEF ParseStep, PlaceAt, TemplaterPlaces, CacheStep,
       ParseRead, SetParseErrors, SetModule, SetLineCount, PutFileMod,
       PutFileRefs, AfterParse
  <2>3. CASE DiskStep(g)
    BY <1>1, <1>2, <2>3 DEF DiskStep, PlaceAt, TemplaterPlaces, CacheStep,
       CheckHasContents, ReadDisk, CompareContents, WriteFromDisk, Stat,
       RenameRead, RenameTarget
  <2>4. CASE DeleteStep(g)
    BY <1>1, <1>2, <2>4 DEF DeleteStep, PlaceAt, TemplaterPlaces, CacheStep,
       DeleteContents, DeleteIgnored, DeleteModule, DeleteDiagnostics,
       DeleteParseErrors, DeleteLineCount
  <2>5. CASE SendStep(g)
    BY <1>1, <1>2, <2>5 DEF SendStep, PlaceAt, TemplaterPlaces, SendErrors,
       SendDiags, Notify
  <2>6. CASE TemplateStep(g)
    BY <1>1, <1>2, <2>6 DEF TemplateStep, PlaceAt, TemplaterPlaces, CacheStep,
       FormatRead, ClearFileDiagnostics, MoveFrom, MoveTo, MoveSet, MovePut
  <2>7. CASE ConfigStep(g)
    BY <1>1, <1>2, <2>7 DEF ConfigStep, PlaceAt, TemplaterPlaces, CacheStep,
       MoveNext, RemoveFileMod, CopyIgnored, RestoreNext, ClearIgnored
  <2>8. CASE LintStep(g)
    BY <1>1, <1>2, <2>8 DEF LintStep, PlaceAt, TemplaterPlaces, CacheStep,
       Lint, LintCheck, SetFileDiagnostics, LintFiles, LintSend
  <2> QED
    BY <2>1, <2>2, <2>3, <2>4, <2>5, <2>6, <2>7, <2>8 DEF Step
<1>6. CASE MarkTemplating(g)
  <2>1. OnlyMoves(g)
    BY <1>6 DEF MarkTemplating, OnlyMoves, Goto, TypeInv
  <2>2. PlaceAt(g, pc'[g], task'[g])
    BY <1>1, <1>2, <1>3, <1>6 DEF MarkTemplating, PlaceAt, WatchedPlaces,
       TemplaterPlaces, Goto, TaskTypes
  <2>3. Adds(g)
    BY <1>1, <1>2, <1>3, <1>4, <1>6 DEF MarkTemplating, Adds, HasText,
       PlaceAt, WatchedPlaces, TemplaterPlaces, Goto, TaskTypes, CacheTypes
  <2>4. Asks(g)
    BY <1>1, <1>2, <1>3, <1>4, <1>6 DEF MarkTemplating, Asks, WillAsk, Quiet,
       PlaceAt, WatchedPlaces, TemplaterPlaces, outside, runs, Goto,
       TaskTypes, CacheTypes
  <2> QED
    BY <1>1, <2>1, <2>2, <2>3, <2>4, OtherKeeps
<1>7. CASE CheckEmpty(g)
  <2>1. OnlyMoves(g)
    BY <1>7 DEF CheckEmpty, OnlyMoves, LocalStep, Goto, Finish, TypeInv,
       GiveUpTemplate
  <2>2. PlaceAt(g, pc'[g], task'[g])
    BY <1>1, <1>2, <1>3, <1>7 DEF CheckEmpty, PlaceAt, WatchedPlaces,
       TemplaterPlaces, Goto, Finish, TaskTypes, GiveUpTemplate
  <2>3. Adds(g)
    <3>1. cache' = cache /\ ignoring' = ignoring
      BY <1>7 DEF CheckEmpty, LocalStep, config
    <3>2. /\ task'[g] = task[g] /\ pc'[g] \in {"tmplDone", "tmplDisk"}
          /\ pc'[g] = "tmplDisk" => cache.contents[task[g].file] = Empty
      BY <1>1, <1>2, <1>7 DEF CheckEmpty, GiveUpTemplate, Goto, PlaceAt
    <3>3. task[g].file \in Files
      BY <1>1, <1>7 DEF CheckEmpty, FileLess
    <3> QED
      BY <1>3, <1>4, <3>1, <3>2, <3>3 DEF Adds, HasText
  <2>4. Asks(g)
    BY <1>1, <1>2, <1>3, <1>4, <1>7 DEF CheckEmpty, Asks, WillAsk, Quiet,
       PlaceAt, WatchedPlaces, TemplaterPlaces, LocalStep, outside, runs,
       Goto, Finish, TaskTypes, CacheTypes, GiveUpTemplate
  <2> QED
    BY <1>1, <2>1, <2>2, <2>3, <2>4, OtherKeeps
<1>8. CASE CheckEmptyOnDisk(g)
  <2>1. OnlyMoves(g)
    BY <1>8 DEF CheckEmptyOnDisk, OnlyMoves, LocalStep, Goto, Finish, TypeInv,
       GiveUpTemplate
  <2>2. PlaceAt(g, pc'[g], task'[g])
    BY <1>1, <1>2, <1>3, <1>8 DEF CheckEmptyOnDisk, PlaceAt, WatchedPlaces,
       TemplaterPlaces, Goto, Finish, TaskTypes, GiveUpTemplate
  <2>3. Adds(g)
    <3>1. cache' = cache /\ ignoring' = ignoring
      BY <1>8 DEF CheckEmptyOnDisk, LocalStep, config
    <3>2. /\ task'[g].file = task[g].file /\ pc'[g] \in {"tmplDone", "set"}
          /\ pc'[g] = "set" => task'[g].text = Template
      BY <1>1, <1>2, <1>8 DEF CheckEmptyOnDisk, GiveUpTemplate, Goto, PlaceAt,
         TaskTypes
    <3>3. task[g].file \in Files /\ pc[g] = "tmplDisk"
      BY <1>1, <1>8 DEF CheckEmptyOnDisk, FileLess
    <3> QED
      BY <1>2, <1>3, <1>4, <3>1, <3>2, <3>3 DEF Adds, HasText
  <2>4. Asks(g)
    BY <1>1, <1>2, <1>3, <1>4, <1>8 DEF CheckEmptyOnDisk, Asks, WillAsk,
       Quiet, PlaceAt, WatchedPlaces, TemplaterPlaces, LocalStep, outside,
       runs, Goto, Finish, TaskTypes, CacheTypes, GiveUpTemplate
  <2> QED
    BY <1>1, <2>1, <2>2, <2>3, <2>4, OtherKeeps
<1>9. CASE SetContents(g)
  <2>1. OnlyMoves(g)
    BY <1>9 DEF SetContents, OnlyMoves, CacheStep, Goto, TypeInv
  <2>2. PlaceAt(g, pc'[g], task'[g])
    BY <1>1, <1>2, <1>3, <1>9 DEF SetContents, PlaceAt, WatchedPlaces,
       TemplaterPlaces, CacheStep, Goto, TaskTypes
  <2>3. Adds(g)
    BY <1>1, <1>2, <1>3, <1>4, <1>9 DEF SetContents, Adds, HasText, PlaceAt,
       WatchedPlaces, TemplaterPlaces, CacheStep, config, Goto, TaskTypes,
       CacheTypes
  <2>4. Asks(g)
    <3>1. pc[g] = "set" /\ task[g].op = "template" /\ task[g].file \in Files
      BY <1>1, <1>2, <1>9 DEF SetContents, CacheStep, PlaceAt, FileLess
    <3>2. task[g].text # Nothing /\ cache.contents[task[g].file] # Nothing
      BY <1>2, <1>3, <3>1 DEF HasText
    <3>3. /\ cache' = [cache EXCEPT !.contents[task[g].file] = task[g].text]
          /\ UNCHANGED <<client, owed, failed>>
      BY <1>9 DEF SetContents, CacheStep, outside, runs
    <3>4. Quiet
      BY <1>3, <3>1, <3>2, <3>3 DEF Quiet, CacheTypes
    <3> QED
      BY <3>1, <3>3, <3>4 DEF Asks, WillAsk
  <2> QED
    BY <1>1, <2>1, <2>2, <2>3, <2>4, OtherKeeps
<1>10. CASE ApplyTemplate(g)
  <2>1. OnlyMoves(g)
    BY <1>10 DEF ApplyTemplate, OnlyMoves, LocalStep, Goto, TypeInv
  <2>2. PlaceAt(g, pc'[g], task'[g])
    BY <1>1, <1>2, <1>3, <1>10 DEF ApplyTemplate, PlaceAt, WatchedPlaces,
       TemplaterPlaces, Goto, TaskTypes
  <2>3. Adds(g)
    BY <1>1, <1>2, <1>3, <1>4, <1>10 DEF ApplyTemplate, Adds, HasText,
       PlaceAt, WatchedPlaces, TemplaterPlaces, LocalStep, config, Goto,
       TaskTypes, CacheTypes
  <2>4. Asks(g)
    BY <1>1, <1>2, <1>3, <1>4, <1>10 DEF ApplyTemplate, Asks, WillAsk, Quiet,
       PlaceAt, WatchedPlaces, TemplaterPlaces, LocalStep, outside, runs,
       Goto, TaskTypes, CacheTypes
  <2> QED
    BY <1>1, <2>1, <2>2, <2>3, <2>4, OtherKeeps
<1>11. CASE RequestLint(g)
  <2>1. OnlyMoves(g)
    BY <1>11 DEF RequestLint, OnlyMoves, Goto, Finish, TypeInv
  <2>2. PlaceAt(g, pc'[g], task'[g])
    BY <1>1, <1>2, <1>3, <1>11 DEF RequestLint, PlaceAt, WatchedPlaces,
       TemplaterPlaces, Goto, Finish, TaskTypes
  <2>3. Adds(g)
    BY <1>1, <1>2, <1>3, <1>4, <1>11 DEF RequestLint, Adds, HasText, PlaceAt,
       WatchedPlaces, TemplaterPlaces, config, Goto, Finish, TaskTypes,
       CacheTypes
  <2>4. Asks(g)
    BY <1>1, <1>2, <1>3, <1>4, <1>11 DEF RequestLint, Asks, WillAsk, Quiet,
       PlaceAt, WatchedPlaces, TemplaterPlaces, outside, Goto, Finish,
       TaskTypes, CacheTypes
  <2> QED
    BY <1>1, <2>1, <2>2, <2>3, <2>4, OtherKeeps
<1>12. CASE UnmarkTemplating(g)
  <2>1. OnlyMoves(g)
    BY <1>12 DEF UnmarkTemplating, OnlyMoves, Finish, TypeInv
  <2>2. PlaceAt(g, pc'[g], task'[g])
    BY <1>1, <1>2, <1>3, <1>12 DEF UnmarkTemplating, PlaceAt, WatchedPlaces,
       TemplaterPlaces, Finish, TaskTypes
  <2>3. Adds(g)
    BY <1>1, <1>2, <1>3, <1>4, <1>12 DEF UnmarkTemplating, Adds, HasText,
       PlaceAt, WatchedPlaces, TemplaterPlaces, Finish, TaskTypes, CacheTypes
  <2>4. Asks(g)
    BY <1>1, <1>2, <1>3, <1>4, <1>12 DEF UnmarkTemplating, Asks, WillAsk,
       Quiet, PlaceAt, WatchedPlaces, TemplaterPlaces, outside, runs, Finish,
       TaskTypes, CacheTypes
  <2> QED
    BY <1>1, <2>1, <2>2, <2>3, <2>4, OtherKeeps
<1>13. CASE FixMismatch(g)
  <2>1. OnlyMoves(g)
    BY <1>13 DEF FixMismatch, OnlyMoves, LocalStep, Goto, TypeInv
  <2>2. PlaceAt(g, pc'[g], task'[g])
    BY <1>1, <1>2, <1>3, <1>13 DEF FixMismatch, NothingErased, PlaceAt, WatchedPlaces,
       TemplaterPlaces, Goto, TaskTypes
  <2>3. Adds(g)
    BY <1>1, <1>2, <1>3, <1>4, <1>13 DEF FixMismatch, Adds, HasText,
       PlaceAt, WatchedPlaces, TemplaterPlaces, LocalStep, config, Goto,
       TaskTypes, CacheTypes
  <2>4. Asks(g)
    BY <1>1, <1>2, <1>3, <1>4, <1>13 DEF FixMismatch, Asks, WillAsk, Quiet,
       PlaceAt, WatchedPlaces, TemplaterPlaces, LocalStep, outside, runs,
       Goto, TaskTypes, CacheTypes
  <2> QED
    BY <1>1, <2>1, <2>2, <2>3, <2>4, OtherKeeps
<1> QED
  BY <1>5, <1>6, <1>7, <1>8, <1>9, <1>10, <1>11, <1>12, <1>13

-----------------------------------------------------------------------------
(* The steps of the lint worker.                                            *)

Seeing == {"lint", "lintCheck", "lintStore"}

LintMoves ==
  /\ \A h \in Goroutines \ {LintWorker} : pc'[h] = pc[h] /\ task'[h] = task[h]
  /\ ignoring' = ignoring /\ owed' = owed
  /\ cache'.contents = cache.contents /\ cache'.modules = cache.modules
  /\ cache'.ignored = cache.ignored /\ cache'.errors = cache.errors
  /\ PlaceAt(LintWorker, pc'[LintWorker], task'[LintWorker])
  /\ pc'[LintWorker] \in Seeing =>
       pc[LintWorker] \in Seeing /\ task'[LintWorker].copy = task[LintWorker].copy
  /\ \A f \in Files : cache'.diags[f] # Nothing => cache'.modules[f] # Nothing

\* What a step of the lint worker has to satisfy to keep it.
LEMMA LintMovesKeeps ==
  ASSUME TypeInv, TypeInv', ShownInv, LintMoves, RunIsRight => RunIsRight'
  PROVE  ShownInv'
<1>1. LintWorker \in Goroutines /\ LintWorker \notin Pool /\ LintWorker # ConfigWorker
      /\ LintWorker # Templater /\ Templater \in Goroutines
  BY GoroutinesAreDistinct DEF Goroutines
<1>2. Places'
  BY DEF ShownInv, Places, LintMoves, PlaceAt
<1>3. Grows'
  <2>1. pc'[LintWorker] \in LintPlaces
    BY <1>1 DEF LintMoves, PlaceAt
  <2>2. HasText(pc'[LintWorker], task'[LintWorker])
    BY <2>1 DEF HasText, LintPlaces
  <2>3. \A h \in Goroutines : HasText(pc'[h], task'[h])
    BY <2>2 DEF ShownInv, Grows, LintMoves
  <2>4. pc'[Templater] = pc[Templater] /\ task'[Templater] = task[Templater]
    BY <1>1 DEF LintMoves
  <2>5. pc'[Templater] \in {"tmplDisk", "set"} => cache'.contents[task'[Templater].file] # Nothing
    BY <2>4 DEF ShownInv, Grows, HasContents, LintMoves
  <2>6. ignoring' = {} /\ cache'.ignored = EveryFile(Nothing)
    BY DEF ShownInv, Grows, LintMoves
  <2>7. pc'[LintWorker] \in Seeing =>
          \A f \in Files : task'[LintWorker].copy[f] # Nothing => cache'.modules[f] # Nothing
    BY DEF ShownInv, Grows, LintMoves, Seeing
  <2> QED
    BY <2>3, <2>5, <2>6, <2>7 DEF Grows, LintMoves, Seeing, HasContents,
       EveryFile, HasText
<1>4. Asked => Asked'
  BY DEF Asked, WillAsk, LintMoves
<1> QED
  BY <1>2, <1>3, <1>4 DEF ShownInv

\* The lint worker takes no steps but its own.
LEMMA LintWorkerSteps ==
  ASSUME LintWorker \in DOMAIN pc, pc[LintWorker] \in LintPlaces, Step(LintWorker)
  PROVE  LET g == LintWorker
         IN \/ Lint(g) \/ LintCheck(g) \/ SetFileDiagnostics(g) \/ LintFiles(g) \/ LintSend(g)
            \/ SendErrors(g) \/ SendDiags(g) \/ Notify(g)
<1> DEFINE g == LintWorker
<1>1. pc[g] \in LintPlaces
  OBVIOUS
<1>2. CASE MessageStep(g)
  BY <1>1, <1>2 DEF MessageStep, LintPlaces, CacheStep, Decide, SetIgnored,
     CheckTemplating, SetContents, RequestLint, RequestTemplate
<1>3. CASE ParseStep(g)
  BY <1>1, <1>3 DEF ParseStep, LintPlaces, CacheStep, ParseRead,
     SetParseErrors, SetModule, SetLineCount, PutFileMod, PutFileRefs,
     AfterParse
<1>4. CASE DiskStep(g)
  BY <1>1, <1>4 DEF DiskStep, LintPlaces, CacheStep, CheckHasContents,
     ReadDisk, CompareContents, WriteFromDisk, Stat, RenameRead, RenameTarget
<1>5. CASE DeleteStep(g)
  BY <1>1, <1>5 DEF DeleteStep, LintPlaces, CacheStep, DeleteContents,
     DeleteIgnored, DeleteModule, DeleteDiagnostics, DeleteParseErrors,
     DeleteLineCount
<1>6. CASE SendStep(g)
  BY <1>6 DEF SendStep
<1>7. CASE TemplateStep(g)
  BY <1>1, <1>7 DEF TemplateStep, LintPlaces, CacheStep, FormatRead,
     ClearFileDiagnostics, MarkTemplating, CheckEmpty, CheckEmptyOnDisk,
     ApplyTemplate, UnmarkTemplating, FixMismatch,
       MoveFrom, MoveTo, MoveSet, MovePut
<1>8. CASE ConfigStep(g)
  BY <1>1, <1>8 DEF ConfigStep, LintPlaces, CacheStep, MoveNext,
     RemoveFileMod, CopyIgnored, RestoreNext, ClearIgnored
<1>9. CASE LintStep(g)
  BY <1>9 DEF LintStep
<1> QED
  BY <1>2, <1>3, <1>4, <1>5, <1>6, <1>7, <1>8, <1>9 DEF Step

\* The steps of a lint run: store what was found, and tell the editor.
LEMMA LintWorkerKeepsShown ==
  ASSUME TypeInv, TypeInv', ShownInv, Step(LintWorker)
  PROVE  ShownInv'
<1> DEFINE g == LintWorker
<1>1. /\ g \in Goroutines /\ pc[g] \in Labels /\ task[g] \in TaskTypes
      /\ g \in DOMAIN pc /\ g \in DOMAIN task
      /\ pc[g] \notin FileLess => task[g].file \in Files
      /\ pc \in [Goroutines -> Labels] /\ task \in [Goroutines -> TaskTypes]
  BY DEF Goroutines, TypeInv, FitsAt
<1>2. /\ g \notin Pool /\ g # ConfigWorker /\ g # Templater
      /\ pc[g] \in LintPlaces /\ (pc[g] # "idle" => task[g].op = "lint")
  BY <1>1, GoroutinesAreDistinct DEF ShownInv, Places, PlaceAt
<1>3. /\ cache \in CacheTypes
      /\ \A f \in Files : cache.diags[f] # Nothing => cache.modules[f] # Nothing
      /\ pc[g] \in Seeing => \A f \in Files : task[g].copy[f] # Nothing => cache.modules[f] # Nothing
  BY DEF TypeInv, MapsOK, ShownInv, Grows, Seeing
<1>4. client \in [Files -> MaybeText]
  BY DEF TypeInv, WorldOK
<1>5. \/ Lint(g) \/ LintCheck(g) \/ SetFileDiagnostics(g) \/ LintFiles(g) \/ LintSend(g)
      \/ SendErrors(g) \/ SendDiags(g) \/ Notify(g)
  BY <1>1, <1>2, LintWorkerSteps
<1> HIDE DEF g
<1>g. g = LintWorker
  BY DEF g
<1>6. CASE Lint(g)
  <2>1. LintMoves
    <3>1. /\ cache' = cache /\ ignoring' = ignoring /\ owed' = owed /\ pc[g] = "lint"
          /\ \A h \in Goroutines \ {g} : pc'[h] = pc[h] /\ task'[h] = task[h]
          /\ pc'[g] = "idle" \/ (pc'[g] = "lintCheck" /\ task' = task)
      BY <1>1, <1>6 DEF Lint, Goto, Finish, config
    <3> QED
      BY <1>2, <1>3, <1>g, <3>1 DEF LintMoves, PlaceAt, LintPlaces, Seeing
  <2>2. RunIsRight => RunIsRight'
    <3> SUFFICES ASSUME RunIsRight PROVE RunIsRight'
      OBVIOUS
    <3>1. cache' = cache /\ pc[g] = "lint"
      BY <1>6 DEF Lint
    <3>2. Sees /\ \A f \in Files : f \in task[g].todo <=> cache.modules[f] # Nothing
      BY <1>g, <3>1 DEF RunIsRight, RunOf
    <3>3. CASE failed' = TRUE /\ Finish(g)
      BY <1>1, <1>g, <3>3 DEF Finish, RunIsRight, RunOf
    <3>4. CASE pc'[g] = "lintCheck" /\ task' = task
      <4>1. AllLinted(task[g].todo)
        BY <1>3, <3>2 DEF AllLinted, Linted
      <4>2. Sees' /\ AllLinted(task[g].todo)'
        BY <1>g, <3>1, <3>2, <3>4, <4>1 DEF Sees, AllLinted, Linted
      <4> QED
        BY <1>g, <3>4, <4>2 DEF RunIsRight, RunOf
    <3> QED
      BY <1>1, <1>6, <3>3, <3>4 DEF Lint, Goto
  <2> QED
    BY <2>1, <2>2, LintMovesKeeps
<1>7. CASE LintCheck(g)
  <2>0. cache' = cache /\ pc[g] = "lintCheck" /\ ignoring' = ignoring /\ owed' = owed
    BY <1>7 DEF LintCheck, LocalStep, config, runs
  <2>a. CASE task[g].todo = {} /\ Goto(g, "lintFiles") /\ UNCHANGED task
    <3>1. LintMoves
      BY <1>1, <1>2, <1>3, <1>g, <2>0, <2>a DEF LintMoves, PlaceAt,
         LintPlaces, Seeing, Goto
    <3>2. ASSUME RunIsRight PROVE RunIsRight'
      <4>1. AllLinted({})
        BY <1>g, <2>0, <2>a, <3>2 DEF RunIsRight, RunOf
      <4>2. AllLinted({})' /\ pc'[g] = "lintFiles"
        BY <1>1, <2>0, <2>a, <4>1 DEF AllLinted, Linted, Goto
      <4> QED
        BY <1>g, <4>2 DEF RunIsRight, RunOf
    <3> QED
      BY <3>1, <3>2, LintMovesKeeps
  <2>b. ASSUME NEW f \in task[g].todo,
               task' = [task EXCEPT ![g].file = f, ![g].todo = @ \ {f}],
               Goto(g, IF cache.errors[f] \in Bad THEN "lintCheck" ELSE "lintStore")
        PROVE  ShownInv'
    <3>1. /\ task'[g].file = f /\ task'[g].todo = task[g].todo \ {f}
          /\ task'[g].copy = task[g].copy /\ task'[g].op = task[g].op
          /\ f \in Files
      BY <1>1, <2>b DEF TaskTypes
    <3>2. pc'[g] = (IF cache.errors[f] \in Bad THEN "lintCheck" ELSE "lintStore")
      BY <1>1, <2>b DEF Goto
    <3>3. LintMoves
      BY <1>1, <1>2, <1>3, <1>g, <2>0, <2>b, <3>1, <3>2 DEF LintMoves,
         PlaceAt, LintPlaces, Seeing, Goto
    <3>4. ASSUME RunIsRight PROVE RunIsRight'
      <4>1. Sees /\ AllLinted(task[g].todo)
        BY <1>g, <2>0, <3>4 DEF RunIsRight, RunOf
      <4>2. Sees'
        BY <1>g, <2>0, <3>1, <4>1 DEF Sees
      <4>3. CASE cache.errors[f] \in Bad
        <5>1. AllLinted(task[g].todo)'
          BY <2>0, <3>1, <4>1, <4>3 DEF AllLinted, Linted
        <5> QED
          BY <1>g, <3>2, <4>2, <4>3, <5>1 DEF RunIsRight, RunOf
      <4>4. CASE cache.errors[f] \notin Bad
        <5>1. AllLinted(task[g].todo \union {task[g].file})'
          BY <2>0, <3>1, <4>1 DEF AllLinted, Linted
        <5> QED
          BY <1>g, <3>2, <4>2, <4>4, <5>1 DEF RunIsRight, RunOf
      <4> QED
        BY <4>3, <4>4
    <3> QED
      BY <3>3, <3>4, LintMovesKeeps
  <2> QED
    BY <1>7, <2>a, <2>b DEF LintCheck
<1>8. CASE SetFileDiagnostics(g)
  <2>0. /\ pc[g] = "lintStore" /\ pc'[g] = "lintCheck" /\ task' = task
        /\ ignoring' = ignoring /\ owed' = owed /\ task[g].file \in Files
        /\ cache' = [cache EXCEPT !.diags[task[g].file] = task[g].copy[task[g].file]]
    BY <1>1, <1>8 DEF SetFileDiagnostics, CacheStep, config, runs, Goto,
       FileLess
  <2>1. /\ cache'.contents = cache.contents /\ cache'.modules = cache.modules
        /\ cache'.ignored = cache.ignored /\ cache'.errors = cache.errors
        /\ cache'.diags = [cache.diags EXCEPT ![task[g].file] = task[g].copy[task[g].file]]
    BY <1>3, <2>0 DEF CacheTypes
  <2>2. \A f \in Files : cache'.diags[f] # Nothing => cache'.modules[f] # Nothing
    BY <1>3, <2>0, <2>1 DEF CacheTypes, Seeing
  <2>3. \A h \in Goroutines \ {g} : pc'[h] = pc[h] /\ task'[h] = task[h]
    BY <1>1, <1>8 DEF SetFileDiagnostics, CacheStep, Goto
  <2>4. LintMoves
    BY <1>2, <1>g, <2>0, <2>1, <2>2, <2>3 DEF LintMoves, PlaceAt, LintPlaces,
       Seeing
  <2>5. ASSUME RunIsRight PROVE RunIsRight'
    <3>1. Sees /\ AllLinted(task[g].todo \union {task[g].file})
      BY <1>g, <2>0, <2>5 DEF RunIsRight, RunOf
    <3>2. Sees'
      BY <1>g, <2>0, <2>1, <3>1 DEF Sees
    <3>3. AllLinted(task[g].todo)'
      <4> SUFFICES \A f \in Files \ task[g].todo : Linted(f)'
        BY <2>0 DEF AllLinted
      <4> TAKE f \in Files \ task[g].todo
      <4>1. CASE f = task[g].file
        <5>1. cache'.diags[f] = task[g].copy[f]
          BY <1>3, <2>1, <4>1 DEF CacheTypes
        <5>2. task[g].copy[f] = cache'.modules[f]
          BY <1>g, <2>1, <3>1 DEF Sees
        <5> QED
          BY <5>1, <5>2 DEF Linted
      <4>2. CASE f # task[g].file
        <5>1. cache'.diags[f] = cache.diags[f] /\ Linted(f)
          BY <1>3, <2>1, <3>1, <4>2 DEF CacheTypes, AllLinted
        <5> QED
          BY <2>1, <5>1 DEF Linted
      <4> QED
        BY <4>1, <4>2
    <3> QED
      BY <1>g, <2>0, <3>2, <3>3 DEF RunIsRight, RunOf
  <2> QED
    BY <2>4, <2>5, LintMovesKeeps
<1>9. CASE LintFiles(g)
  <2>0. cache' = cache /\ pc[g] = "lintFiles" /\ ignoring' = ignoring /\ owed' = owed
    BY <1>9 DEF LintFiles, LocalStep, config, runs
  <2>1. /\ pc'[g] = "lintSend" /\ task'[g].todo = AllFiles /\ task'[g].op = task[g].op
        /\ \A h \in Goroutines \ {g} : pc'[h] = pc[h] /\ task'[h] = task[h]
    BY <1>1, <1>9 DEF LintFiles, Goto, TaskTypes
  <2>2. LintMoves
    BY <1>2, <1>3, <1>g, <2>0, <2>1 DEF LintMoves, PlaceAt, LintPlaces, Seeing
  <2>3. ASSUME RunIsRight PROVE RunIsRight'
    <3>1. AllLinted({})
      BY <1>g, <2>0, <2>3 DEF RunIsRight, RunOf
    <3>2. AllLinted({})' /\ AllTold(task[g].todo)'
      BY <2>0, <2>1, <3>1 DEF AllLinted, Linted, AllTold, AllFiles,
         HasContents
    <3> QED
      BY <1>g, <2>1, <3>2 DEF RunIsRight, RunOf
  <2> QED
    BY <2>2, <2>3, LintMovesKeeps
<1>10. CASE LintSend(g)
  <2>0. /\ cache' = cache /\ pc[g] = "lintSend" /\ ignoring' = ignoring /\ owed' = owed
        /\ client' = client
    BY <1>10 DEF LintSend, LocalStep, config, runs, outside
  <2>1. \A h \in Goroutines \ {g} : pc'[h] = pc[h] /\ task'[h] = task[h]
    BY <1>1, <1>10 DEF LintSend, Goto, Finish
  <2>c. ASSUME RunIsRight PROVE AllLinted({}) /\ AllTold(task[g].todo)
    BY <1>g, <2>0, <2>c DEF RunIsRight, RunOf
  <2>a. CASE task[g].todo = {} /\ Finish(g)
    <3>1. pc'[g] = "idle"
      BY <1>1, <2>a DEF Finish
    <3>2. LintMoves
      BY <1>2, <1>3, <1>g, <2>0, <2>1, <3>1 DEF LintMoves, PlaceAt,
         LintPlaces, Seeing
    <3>3. ASSUME RunIsRight PROVE RunIsRight'
      <4>1. \A f \in AllFiles : Linted(f) /\ Told(f)
        BY <2>a, <2>c, <3>3 DEF AllLinted, AllTold, AllFiles
      <4>2. \A f \in AllFiles' : Linted(f)' /\ Told(f)'
        BY <2>0, <4>1 DEF AllFiles, HasContents, Linted, Told, Shown
      <4> QED
        BY <1>g, <3>1, <4>2 DEF RunIsRight, RunOf
    <3> QED
      BY <3>2, <3>3, LintMovesKeeps
  <2>b. ASSUME NEW f \in task[g].todo,
               task' = [task EXCEPT ![g].file = f, ![g].todo = @ \ {f}],
               Goto(g, "sendErrors")
        PROVE  ShownInv'
    <3>1. /\ task'[g].file = f /\ task'[g].todo = task[g].todo \ {f}
          /\ task'[g].op = task[g].op /\ pc'[g] = "sendErrors"
      BY <1>1, <2>b DEF TaskTypes, Goto
    <3>2. LintMoves
      BY <1>2, <1>3, <1>g, <2>0, <2>1, <3>1 DEF LintMoves, PlaceAt,
         LintPlaces, Seeing
    <3>3. ASSUME RunIsRight PROVE RunIsRight'
      <4>1. AllLinted({})' /\ AllTold(task[g].todo \union {task[g].file})'
        BY <2>0, <2>c, <3>1, <3>3 DEF AllLinted, AllTold, Linted, Told, Shown,
           AllFiles, HasContents
      <4> QED
        BY <1>g, <3>1, <4>1 DEF RunIsRight, RunOf
    <3> QED
      BY <3>2, <3>3, LintMovesKeeps
  <2> QED
    BY <1>10, <2>a, <2>b DEF LintSend
<1>11. CASE SendErrors(g)
  <2>0. /\ cache' = cache /\ pc[g] = "sendErrors" /\ ignoring' = ignoring /\ owed' = owed
        /\ client' = client
    BY <1>11 DEF SendErrors, LocalStep, config, runs, outside
  <2> DEFINE f == task[g].file
             e == cache.errors[f]
  <2>1. /\ task'[g].diag = (IF e \in Bad THEN e ELSE Nothing)
        /\ task'[g].file = f /\ task'[g].todo = task[g].todo /\ task'[g].op = task[g].op
        /\ pc'[g] = (IF e \in Bad THEN "notify" ELSE "sendDiags")
        /\ \A h \in Goroutines \ {g} : pc'[h] = pc[h] /\ task'[h] = task[h]
    BY <1>1, <1>11 DEF SendErrors, Goto, TaskTypes
  <2>2. LintMoves
    BY <1>2, <1>3, <1>g, <2>0, <2>1 DEF LintMoves, PlaceAt, LintPlaces, Seeing
  <2>3. ASSUME RunIsRight PROVE RunIsRight'
    <3>1. AllLinted({}) /\ AllTold(task[g].todo \union {f})
      BY <1>g, <2>0, <2>3 DEF RunIsRight, RunOf
    <3>2. AllLinted({})' /\ AllTold(task[g].todo \union {task[g].file})'
      BY <2>0, <2>1, <3>1 DEF AllLinted, AllTold, Linted, Told, Shown,
         AllFiles, HasContents
    <3>3. CASE e \in Bad
      <4>1. task'[g].diag = Shown(f)' /\ pc'[g] = "notify"
        BY <2>0, <2>1, <3>3 DEF Shown
      <4> QED
        BY <1>g, <2>1, <3>2, <4>1 DEF RunIsRight, RunOf, Shown
    <3>4. CASE e \notin Bad
      <4>1. cache'.errors[task'[g].file] \notin Bad /\ pc'[g] = "sendDiags"
        BY <2>0, <2>1, <3>4
      <4> QED
        BY <1>g, <3>2, <4>1 DEF RunIsRight, RunOf
    <3> QED
      BY <3>3, <3>4
  <2> QED
    BY <2>2, <2>3, LintMovesKeeps
<1>12. CASE SendDiags(g)
  <2>0. /\ cache' = cache /\ pc[g] = "sendDiags" /\ ignoring' = ignoring /\ owed' = owed
        /\ client' = client
    BY <1>12 DEF SendDiags, LocalStep, config, runs, outside
  <2> DEFINE f == task[g].file
  <2>1. /\ task'[g].diag = cache.diags[f]
        /\ task'[g].file = f /\ task'[g].todo = task[g].todo /\ task'[g].op = task[g].op
        /\ pc'[g] = "notify"
        /\ \A h \in Goroutines \ {g} : pc'[h] = pc[h] /\ task'[h] = task[h]
    BY <1>1, <1>12 DEF SendDiags, Goto, TaskTypes
  <2>2. LintMoves
    BY <1>2, <1>3, <1>g, <2>0, <2>1 DEF LintMoves, PlaceAt, LintPlaces, Seeing
  <2>3. ASSUME RunIsRight PROVE RunIsRight'
    <3>1. AllLinted({}) /\ AllTold(task[g].todo \union {f}) /\ cache.errors[f] \notin Bad
      BY <1>g, <2>0, <2>3 DEF RunIsRight, RunOf
    <3>2. AllLinted({})' /\ AllTold(task[g].todo \union {task[g].file})'
      BY <2>0, <2>1, <3>1 DEF AllLinted, AllTold, Linted, Told, Shown,
         AllFiles, HasContents
    <3>3. task'[g].diag = Shown(task[g].file)'
      BY <2>0, <2>1, <3>1 DEF Shown
    <3> QED
      BY <1>g, <2>1, <3>2, <3>3 DEF RunIsRight, RunOf, Shown
  <2> QED
    BY <2>2, <2>3, LintMovesKeeps
<1>13. CASE Notify(g)
  <2>0. /\ cache' = cache /\ pc[g] = "notify" /\ ignoring' = ignoring /\ owed' = owed
        /\ client' = [client EXCEPT ![task[g].file] = task[g].diag]
        /\ task[g].file \in Files
    BY <1>1, <1>13 DEF Notify, config, runs, FileLess
  <2>1. pc'[g] = "lintSend" /\ task' = task
        /\ \A h \in Goroutines \ {g} : pc'[h] = pc[h]
    BY <1>1, <1>2, <1>13, <2>0 DEF Notify, Goto
  <2>2. LintMoves
    BY <1>2, <1>3, <1>g, <2>0, <2>1 DEF LintMoves, PlaceAt, LintPlaces, Seeing
  <2>3. ASSUME RunIsRight PROVE RunIsRight'
    <3>1. /\ AllLinted({}) /\ AllTold(task[g].todo \union {task[g].file})
          /\ task[g].diag = Shown(task[g].file)
      BY <1>g, <2>0, <2>3 DEF RunIsRight, RunOf
    <3>2. AllLinted({})'
      BY <2>0, <3>1 DEF AllLinted, Linted
    <3>3. AllTold(task[g].todo)'
      <4> SUFFICES ASSUME NEW f \in AllFiles \ task[g].todo
                   PROVE  client'[f] = Shown(f)
        BY <2>0, <2>1 DEF AllTold, Told, Shown, AllFiles, HasContents
      <4>1. f \in Files
        BY DEF AllFiles
      <4> QED
        BY <1>4, <2>0, <3>1, <4>1 DEF AllTold, Told
    <3> QED
      BY <1>g, <2>1, <3>2, <3>3 DEF RunIsRight, RunOf, AllTold
  <2> QED
    BY <2>2, <2>3, LintMovesKeeps
<1> QED
  BY <1>5, <1>6, <1>7, <1>8, <1>9, <1>10, <1>11, <1>12, <1>13

-----------------------------------------------------------------------------
(* What begins, what is outside the server, and the theorem.                *)

\* A message or a tick only gives a goroutine something to do.
LEMMA BeginKeepsShown ==
  ASSUME TypeInv, TypeInv', ShownInv, NEW g \in Pool, NEW o \in PoolOps, NEW f, NEW d, NEW t,
         NEW l \in {"decide", "format"}, Begin(g, o, f, d, t, l),
         o = "watched" => l = "decide", o \in {"open", "edit"} => t # Nothing
  PROVE  ShownInv'
<1>1. /\ g \in Goroutines \ {LintWorker} /\ g # ConfigWorker /\ g # Templater
      /\ g \in DOMAIN pc /\ g \in DOMAIN task
  BY GoroutinesAreDistinct DEF Goroutines, TypeInv
<1>2. /\ pc'[g] = l /\ pc[g] = "idle"
      /\ task'[g].op = o /\ task'[g].text = t
      /\ cache' = cache /\ ignoring' = ignoring /\ client' = client
      /\ owed' = owed /\ failed' = failed
  BY <1>1 DEF Begin, Goto, config, runs, NoTask
<1>3. OnlyMoves(g)
  BY DEF Begin, Goto, OnlyMoves
<1>4. PlaceAt(g, pc'[g], task'[g])
  BY <1>1, <1>2 DEF PlaceAt, PoolPlaces, WatchedPlaces
<1>5. Adds(g)
  <2>1. ignoring = {} /\ cache.ignored = EveryFile(Nothing) /\ cache \in CacheTypes
    BY DEF ShownInv, Grows, TypeInv, MapsOK
  <2>2. HasText(pc'[g], task'[g])
    BY <1>2 DEF HasText
  <2> QED
    BY <1>1, <1>2, <2>1, <2>2 DEF Adds
<1>6. Asks(g)
  BY <1>2 DEF Asks, Quiet, WillAsk
<1> QED
  BY <1>1, <1>3, <1>4, <1>5, <1>6, OtherKeeps

\* Messages and ticks.
LEMMA ReceiveKeepsShown ==
  ASSUME NothingErased, TypeInv, TypeInv', ShownInv, NEW g \in Pool, Receive(g)
  PROVE  ShownInv'
<1>1. \A t \in SentTexts : t # Nothing
  BY TextsAreDistinct
<1>2. CASE ReceiveText(g)
  <2>1. PICK o \in {"open", "edit"}, f \in Files, t \in SentTexts : Begin(g, o, f, f, t, "decide")
    BY <1>2 DEF ReceiveText
  <2> QED
    BY <1>1, <2>1, BeginKeepsShown DEF PoolOps
<1>3. CASE ReceiveGone(g)
  <2>1. PICK o \in {"close", "delete"}, f \in Files : Begin(g, o, f, f, Nothing, "decide")
    BY <1>3 DEF ReceiveGone
  <2>2. o = "close"
    BY <2>1 DEF Begin, MayStart, NothingErased
  <2> QED
    BY <2>1, <2>2, BeginKeepsShown DEF PoolOps
<1>4. CASE ReceiveFile(g)
  <2>1. CASE \E o \in {"create", "watched"}, f \in Files : Begin(g, o, f, f, Nothing, "decide")
    BY <2>1, BeginKeepsShown DEF PoolOps
  <2>2. CASE \E f \in Files : Begin(g, "format", f, f, Nothing, "format")
    BY <2>2, BeginKeepsShown DEF PoolOps
  <2> QED
    BY <1>4, <2>1, <2>2 DEF ReceiveFile
<1>5. ~ReceiveRename(g)
  BY DEF ReceiveRename, Begin, MayStart, NothingErased
<1>6. CASE StateWorkerTick(g)
  <2>1. PICK f \in Files : \/ Begin(g, "load", f, f, Nothing, "decide")
                           \/ Begin(g, "sweep", f, f, Nothing, "stat")
    BY <1>6 DEF StateWorkerTick
  <2>2. ~Begin(g, "sweep", f, f, Nothing, "stat")
    BY DEF Begin, MayStart, NothingErased
  <2> QED
    BY <2>1, <2>2, BeginKeepsShown DEF PoolOps
<1> QED
  BY <1>2, <1>3, <1>4, <1>5, <1>6 DEF Receive

\* The template worker takes a job.
LEMMA TakeTemplateJobKeepsShown ==
  ASSUME TypeInv, TypeInv', ShownInv, TakeTemplateJob
  PROVE  ShownInv'
<1> DEFINE g == Templater
<1>1. /\ g \in Goroutines \ {LintWorker} /\ g # ConfigWorker /\ g \notin Pool
      /\ g \in DOMAIN pc /\ g \in DOMAIN task
  BY GoroutinesAreDistinct DEF Goroutines, TypeInv
<1>2. /\ pc'[g] = "tmplMark" /\ pc[g] = "idle" /\ task'[g].op = "template"
      /\ cache' = cache /\ ignoring' = ignoring /\ client' = client
      /\ owed' = owed /\ failed' = failed
  BY <1>1 DEF TakeTemplateJob, Goto, outside, runs, NoTask
<1>3. OnlyMoves(g)
  BY DEF TakeTemplateJob, Goto, OnlyMoves
<1>4. PlaceAt(g, pc'[g], task'[g])
  BY <1>1, <1>2 DEF PlaceAt, TemplaterPlaces
<1>5. Adds(g)
  <2>1. ignoring = {} /\ cache.ignored = EveryFile(Nothing) /\ cache \in CacheTypes
    BY DEF ShownInv, Grows, TypeInv, MapsOK
  <2> QED
    BY <1>2, <2>1 DEF Adds, HasText
<1>6. Asks(g)
  BY <1>2 DEF Asks, Quiet, WillAsk
<1> QED
  BY <1>1, <1>3, <1>4, <1>5, <1>6, OtherKeeps

\* The config worker takes a config, which ignores nothing.
LEMMA TakeConfigKeepsShown ==
  ASSUME NothingErased, TypeInv, TypeInv', ShownInv, TakeConfig
  PROVE  ShownInv'
<1> DEFINE g == ConfigWorker
<1>1. /\ g \in Goroutines \ {LintWorker} /\ g # Templater /\ g \notin Pool
      /\ g \in DOMAIN pc /\ g \in DOMAIN task
  BY GoroutinesAreDistinct DEF Goroutines, TypeInv
<1>2. /\ pc'[g] \in {"move", "request"} /\ pc[g] = "idle" /\ task'[g].op \in {"reload", "drop"}
      /\ cache' = cache /\ ignoring' = {} /\ client' = client
      /\ owed' = owed /\ failed' = failed
  <2>1. CASE LoadConfig
    BY <1>1, <2>1 DEF TakeConfig, LoadConfig, Goto, outside, runs, NoTask,
       NothingErased
  <2>2. CASE DropConfig
    BY <1>1, <2>2 DEF TakeConfig, DropConfig, Goto, outside, runs, NoTask
  <2> QED
    BY <2>1, <2>2 DEF TakeConfig
<1>3. OnlyMoves(g)
  <2>1. CASE LoadConfig
    <3>1. \E l \in {"move", "request"} : pc' = [pc EXCEPT ![g] = l]
      BY <2>1 DEF LoadConfig, Goto
    <3>2. task' = [task EXCEPT ![g] = [NoTask EXCEPT !.op = "reload", !.todo = AllFiles]]
      BY <2>1 DEF LoadConfig
    <3> QED
      BY <3>1, <3>2 DEF OnlyMoves
  <2>2. CASE DropConfig
    BY <1>1, <2>2 DEF DropConfig, Goto, OnlyMoves
  <2> QED
    BY <2>1, <2>2 DEF TakeConfig
<1>4. PlaceAt(g, pc'[g], task'[g])
  BY <1>1, <1>2 DEF PlaceAt, ConfigPlaces
<1>5. Adds(g)
  <2>1. cache.ignored = EveryFile(Nothing) /\ cache \in CacheTypes
    BY DEF ShownInv, Grows, TypeInv, MapsOK
  <2> QED
    BY <1>1, <1>2, <2>1 DEF Adds, HasText
<1>6. Asks(g)
  BY <1>2 DEF Asks, Quiet, WillAsk
<1> QED
  BY <1>1, <1>3, <1>4, <1>5, <1>6, OtherKeeps

\* A lint run begins: it sees the cache as it is.
LEMMA StartLintKeepsShown ==
  ASSUME TypeInv, TypeInv', ShownInv, StartLint
  PROVE  ShownInv'
<1> DEFINE g == LintWorker
<1>1. /\ g \in Goroutines /\ g # Templater /\ g # ConfigWorker /\ g \notin Pool
      /\ g \in DOMAIN pc /\ g \in DOMAIN task /\ Templater \in Goroutines
  BY GoroutinesAreDistinct DEF Goroutines, TypeInv
<1>2. /\ pc'[g] = "lint" /\ task'[g].op = "lint" /\ task'[g].copy = cache.modules
      /\ task'[g].todo = {f \in Files : cache.modules[f] # Nothing}
      /\ cache' = cache /\ ignoring' = ignoring
      /\ \A h \in Goroutines \ {g} : pc'[h] = pc[h] /\ task'[h] = task[h]
  <2>1. /\ pc' = [pc EXCEPT ![g] = "lint"] /\ cache' = cache /\ ignoring' = ignoring
        /\ task' = [task EXCEPT ![g] = [NoTask EXCEPT !.op = "lint", !.copy = cache.modules,
                      !.todo = {f \in Files : cache.modules[f] # Nothing}]]
    BY DEF StartLint, Goto, config
  <2>2. pc'[g] = "lint" /\ \A h \in Goroutines \ {g} : pc'[h] = pc[h] /\ task'[h] = task[h]
    BY <1>1, <2>1
  <2>3. task'[g] = [NoTask EXCEPT !.op = "lint", !.copy = cache.modules,
                      !.todo = {f \in Files : cache.modules[f] # Nothing}]
    BY <1>1, <2>1
  <2>4. /\ task'[g].op = "lint" /\ task'[g].copy = cache.modules
        /\ task'[g].todo = {f \in Files : cache.modules[f] # Nothing}
    BY <2>3 DEF NoTask
  <2> QED
    BY <2>1, <2>2, <2>4
<1>3. PlaceAt(g, pc'[g], task'[g])
  BY <1>1, <1>2 DEF PlaceAt, LintPlaces
<1>4. Places'
  BY <1>2, <1>3 DEF ShownInv, Places, PlaceAt
<1>5. Grows'
  <2>1. \A h \in Goroutines : HasText(pc'[h], task'[h])
    BY <1>2 DEF ShownInv, Grows, HasText
  <2>2. pc'[Templater] = pc[Templater] /\ task'[Templater] = task[Templater]
    BY <1>1, <1>2
  <2> QED
    BY <1>2, <2>1, <2>2 DEF ShownInv, Grows, HasContents, EveryFile, HasText
<1>6. RunIsRight'
  BY <1>2 DEF RunIsRight, RunOf, Sees
<1> QED
  BY <1>4, <1>5, <1>6 DEF ShownInv

\* A change on disk, a poke, and a step of nobody.
LEMMA OutsideKeepsShown ==
  ASSUME ShownInv, DiskChange \/ Poke \/ UNCHANGED vars
  PROVE  ShownInv'
<1>1. /\ cache' = cache /\ ignoring' = ignoring /\ client' = client /\ failed' = failed
      /\ pc' = pc /\ task' = task /\ (owed' = owed \/ owed')
  BY DEF DiskChange, Poke, vars, config, outside, runs
<1>2. Places' /\ Grows'
  BY <1>1 DEF ShownInv, Places, PlaceAt, Grows, HasText, HasContents,
     EveryFile
<1>3. Asked => Asked'
  BY <1>1 DEF Asked, WillAsk
<1>4. RunIsRight => RunIsRight'
  BY <1>1 DEF RunIsRight, RunOf, Sees, AllLinted, AllTold, Linted, Told,
     Shown, AllFiles, HasContents
<1> QED
  BY <1>2, <1>3, <1>4 DEF ShownInv

\* At first no file is in the cache.
LEMMA ShownAtFirst ==
  ASSUME NothingErased, Init
  PROVE  ShownInv
<1>1. /\ pc = [g \in Goroutines |-> "idle"]
      /\ task = [g \in Goroutines |-> NoTask]
      /\ LintWorker \in Goroutines /\ Templater \in Goroutines
  BY DEF Init, NoTasks, Goroutines
<1>2. ignoring = {} /\ cache.ignored = EveryFile(Nothing) /\ cache.contents = EveryFile(Nothing)
      /\ cache.diags = EveryFile(Nothing)
  BY DEF Init, InitMaps, NothingErased
<1>3. NoTask.op = "none"
  BY DEF NoTask
<1>4. Places
  BY <1>1, <1>3 DEF Places, PlaceAt, PoolPlaces, ConfigPlaces,
     TemplaterPlaces, LintPlaces
<1>5. Grows
  BY <1>1, <1>2 DEF Grows, HasText, EveryFile
<1>6. RunIsRight
  <2>1. AllFiles = {}
    BY <1>2 DEF AllFiles, HasContents, EveryFile
  <2> QED
    BY <1>1, <2>1 DEF RunIsRight, RunOf
<1> QED
  BY <1>4, <1>5, <1>6 DEF ShownInv

\* The invariant is kept by every step.
LEMMA NextKeepsShown ==
  ASSUME NothingErased, TypeInv, TypeInv', ShownInv, [Next]_vars
  PROVE  ShownInv'
<1>1. CASE \E g \in Pool : Receive(g)
  BY <1>1, ReceiveKeepsShown
<1>2. CASE TakeTemplateJob
  BY <1>2, TakeTemplateJobKeepsShown
<1>3. CASE TakeConfig
  BY <1>3, TakeConfigKeepsShown
<1>4. CASE StartLint
  BY <1>4, StartLintKeepsShown
<1>5. CASE \E g \in Goroutines : Step(g)
  <2>1. PICK g \in Goroutines : Step(g)
    BY <1>5
  <2>2. CASE g \in Pool
    BY <2>1, <2>2, PoolKeepsShown
  <2>3. CASE g = ConfigWorker
    BY <2>1, <2>3, ConfigKeepsShown
  <2>4. CASE g = Templater
    BY <2>1, <2>4, TemplaterKeepsShown
  <2>5. CASE g = LintWorker
    BY <2>1, <2>5, LintWorkerKeepsShown
  <2> QED
    BY <2>2, <2>3, <2>4, <2>5 DEF Goroutines
<1>6. CASE DiskChange \/ Poke \/ UNCHANGED vars
  BY <1>6, OutsideKeepsShown
<1> QED
  BY <1>1, <1>2, <1>3, <1>4, <1>5, <1>6 DEF Next

\* At rest it is what the property says.
LEMMA ShownIsTold ==
  ASSUME ShownInv
  PROVE  ClientMatchesCache
<1> SUFFICES ASSUME Quiescent, ~failed, NEW f \in AllFiles
             PROVE  Told(f) /\ Linted(f)
  BY DEF ClientMatchesCache, Told, Linted
<1>1. \A g \in Goroutines : pc[g] = "idle"
  BY DEF Quiescent
<1>2. LintWorker \in Goroutines
  BY DEF Goroutines
<1>3. ~Asked
  BY <1>1 DEF Quiescent, Asked, WillAsk
<1>4. pc[LintWorker] = "idle"
  BY <1>1, <1>2
<1> QED
  BY <1>3, <1>4 DEF ShownInv, RunIsRight, RunOf

(* While nothing is deleted or ignored, packages fit their places, so that   *)
(* the template worker moves nothing, and however the handlers of opened,    *)
(* changed, closed, created, watched, formatted and loaded files, the        *)
(* template worker, the loading of configs and the lint worker interleave:   *)
(* when all of it is done and the latest lint run did not fail, the editor   *)
(* was sent for every file in the cache what the cache says of it, and that  *)
(* is the outcome of linting the module the cache holds (lint.go,            *)
(* server.go: StartDiagnosticsWorker, updateFileDiagnostics).                *)
THEOREM EditorSeesTheCache ==
  ASSUME NothingErased
  PROVE  Spec => []ClientMatchesCache
<1>1. Init => ShownInv
  BY ShownAtFirst
<1>2. TypeInv /\ TypeInv' /\ ShownInv /\ [Next]_vars => ShownInv'
  BY NextKeepsShown
<1>3. ShownInv => ClientMatchesCache
  BY ShownIsTold
<1> QED
  BY <1>1, <1>2, <1>3, TypesHold, PTL DEF Spec

-----------------------------------------------------------------------------
(* What is derived from a document, while operations come one at a time and *)
(* the config stays.                                                        *)

InTurnOnly == OneAtATime /\ Ops \intersect {"reload", "drop"} = {}

\* The steps of updateParse, and those in which a file goes away.
Parsing == {"parse", "errors", "module", "lines", "putMod", "putRefs"}
Gone == {"delIgnored", "delModule", "delDiags", "delErrors", "delLines",
         "sendErrors", "sendDiags", "notify", "target"}
Leaving == Gone \union {"delContents"}

\* Where a goroutine that is busy may be.
BusyPlaces == Parsing \union Leaving \union
  {"decide", "ignore", "templating?", "set", "parsed", "request", "template", "has", "read",
   "compare", "write", "stat", "rename", "format", "clear", "tmplMark", "tmplCheck", "tmplDisk",
   "tmplFix", "tmplFrom", "tmplTo", "tmplSet", "tmplPut", "tmplEdit", "tmplDone"}

Others == Goroutines \ {LintWorker}

Alone == \A g, h \in Others : pc[g] # "idle" /\ pc[h] # "idle" => g = h

\* What updateParse has derived of the text so far.
Derived(l, f, t) ==
  /\ cache.contents[f] = t
  /\ l \in {"module", "lines", "putMod", "putRefs"} => cache.errors[f] = Clean
  /\ l \in {"lines", "putMod", "putRefs"} => cache.modules[f] = t
  /\ l \in {"putMod", "putRefs"} => cache.lines[f] = t
  /\ l = "putRefs" => store.parsed[f] = t

\* Where a goroutine holds a text to be stored.
WithText(l, x) ==
  \/ l \in {"templating?", "set", "compare", "write", "clear"}
  \/ l = "decide" /\ x.op \in {"open", "edit"}
  \/ l \in Leaving /\ x.op = "rename"

\* What there is to say of a goroutine at l with x in hand.
BusyAt(l, x) ==
  /\ l \in BusyPlaces
  /\ x.op \in (AllOps \union {"loaded", "template", "moved"}) \ {"reload", "drop"}
  /\ l \in (Parsing \union {"parsed"}) \ {"parse"} => Derived(l, x.file, x.text)
  /\ l \in Gone => cache.contents[x.file] = Nothing
  /\ x.op = "rename" /\ l \in Leaving \union {"decide", "rename", "read", "compare", "write"} =>
       x.file # x.dest
  /\ WithText(l, x) => x.text # Nothing
  /\ l = "set" /\ x.op = "template" => x.text = Template
  /\ l \in {"tmplFix", "tmplFrom"} => cache.contents[x.file] = Template
  /\ l \in {"tmplTo", "tmplSet"} => x.text = Template
  /\ l \in {"tmplFix", "tmplFrom", "tmplTo", "tmplSet", "tmplPut", "tmplEdit"} => x.op # "rename"
  /\ l = "clear" => x.op # "template"
  /\ l = "templating?" => x.op = "open"
  /\ l = "stat" => x.op = "sweep"
  /\ l = "has" => x.op = "load"

RestsOrBusy(g) == pc[g] = "idle" \/ BusyAt(pc[g], task[g])

Busy == \A g \in Others : RestsOrBusy(g)

\* The files that SettledView speaks of.
Tracked(f) == f \notin ignoring /\ cache.contents[f] \notin {Nothing, Template}

\* The files whose derived values g has still to bring in line.
InHand(g, f) ==
  \/ pc[g] \in Parsing /\ f = task[g].file
  \/ task[g].op = "rename" /\ pc[g] \in Leaving /\ f = task[g].dest
  \/ task[g].op = "rename" /\ pc[g] = "set" /\ f = task[g].file

Follows(f) ==
  LET t == cache.contents[f]
  IN /\ t \in Good => /\ cache.errors[f] = Clean
                      /\ cache.modules[f] = t /\ cache.lines[f] = t
                      /\ store.parsed[f] = t /\ store.refs[f] = t
     /\ t \in Bad => cache.errors[f] = t

AllFollow ==
  \A f \in Files : Tracked(f) /\ (\A g \in Others : ~InHand(g, f)) => Follows(f)

\* g will ask for a lint run.
WillRequest(g) ==
  \/ pc[g] \in {"errors", "module", "lines", "putMod", "putRefs", "request"}
  \/ pc[g] = "set" /\ task[g].op # "template"
  \/ pc[g] = "parse" /\ HasContents(task[g].file)
  \/ pc[g] = "parsed" /\ task[g].text # Nothing
  \/ task[g].op = "rename" /\ pc[g] \in Leaving /\ task[g].dest \notin ignoring

Requested == owed \/ \E g \in Others : WillRequest(g)

LintedBut(S) == \A f \in Files \ S : Tracked(f) => Linted(f)
ToldBut(S) == \A f \in Files \ S : Tracked(f) => Told(f)
SeesTracked == \A f \in Files : Tracked(f) => task[LintWorker].copy[f] = cache.modules[f]

\* What the lint run has done, and holds.
LintOf(todo, file) ==
  \/ pc[LintWorker] = "idle" /\ (failed \/ (LintedBut({}) /\ ToldBut({})))
  \/ /\ pc[LintWorker] = "lint" /\ SeesTracked
     /\ \A f \in Files : Tracked(f) /\ cache.modules[f] # Nothing => f \in todo
  \/ pc[LintWorker] = "lintCheck" /\ SeesTracked /\ LintedBut(todo)
  \/ pc[LintWorker] = "lintStore" /\ SeesTracked /\ LintedBut(todo \union {file})
  \/ pc[LintWorker] = "lintFiles" /\ LintedBut({})
  \/ pc[LintWorker] = "lintSend" /\ LintedBut({}) /\ ToldBut(todo)
  \/ pc[LintWorker] = "sendErrors" /\ LintedBut({}) /\ ToldBut(todo \union {file})
  \/ /\ pc[LintWorker] = "sendDiags" /\ LintedBut({}) /\ ToldBut(todo \union {file})
     /\ Tracked(file) => cache.errors[file] \notin Bad
  \/ /\ pc[LintWorker] = "notify" /\ LintedBut({}) /\ ToldBut(todo \union {file})
     /\ Tracked(file) => task[LintWorker].diag = Shown(file)

LintIsRight == LintOf(task[LintWorker].todo, task[LintWorker].file)

LinterAt == pc[LintWorker] \in LintPlaces
            /\ (pc[LintWorker] # "idle" => task[LintWorker].op = "lint")

SettledInv == Alone /\ Busy /\ LinterAt /\ AllFollow /\ (Requested \/ LintIsRight)

\* All but what g has in hand follows.
FollowsBut(g) == \A f \in Files : Tracked(f) /\ ~InHand(g, f) => Follows(f)

\* Nothing that lint runs and the editor see of the tracked files changes.
QuietForTracked ==
  /\ \A f \in Files : Tracked(f)' =>
       /\ Tracked(f)
       /\ cache'.errors[f] = cache.errors[f] /\ cache'.diags[f] = cache.diags[f]
       /\ cache'.modules[f] = cache.modules[f] /\ client'[f] = client[f]
  /\ failed' = failed

\* If something does, g will ask for a lint run, or has asked.
AsksInTurn(g) ==
  /\ owed => owed'
  /\ WillRequest(g)' \/ owed' \/ (QuietForTracked /\ ~WillRequest(g))

\* A lint run that goes on stays right when nothing it sees changes.
LEMMA QuietKeepsLint ==
  ASSUME TypeInv, QuietForTracked, pc'[LintWorker] = pc[LintWorker],
         task'[LintWorker] = task[LintWorker], LintIsRight
  PROVE  LintIsRight'
<1>1. \A f \in Files : Tracked(f)' =>
        /\ Tracked(f)
        /\ Linted(f) => Linted(f)'
        /\ Told(f) => Told(f)'
        /\ Shown(f)' = Shown(f)
  BY DEF QuietForTracked, Linted, Told, Shown
<1>2. /\ \A S : LintedBut(S) => LintedBut(S)'
      /\ \A S : ToldBut(S) => ToldBut(S)'
      /\ SeesTracked => SeesTracked'
  BY <1>1 DEF QuietForTracked, LintedBut, ToldBut, SeesTracked
<1>3. \A f \in Files : Tracked(f)' => Tracked(f) /\ cache'.errors[f] = cache.errors[f]
                                      /\ cache'.modules[f] = cache.modules[f]
  BY DEF QuietForTracked
<1>4. LintWorker \in Goroutines /\ failed' = failed
  BY DEF Goroutines, QuietForTracked
<1>5. pc[LintWorker] \in {"sendDiags", "notify"} => task[LintWorker].file \in Files
  BY <1>4 DEF TypeInv, FitsAt, FileLess
<1> QED
  BY <1>1, <1>2, <1>3, <1>4, <1>5 DEF LintIsRight, LintOf

\* What a step of a goroutine that is busy alone has to satisfy.
LEMMA AloneKeepsSettled ==
  ASSUME TypeInv, SettledInv, NEW g \in Others, OnlyMoves(g),
         \A h \in Others \ {g} : pc[h] = "idle",
         RestsOrBusy(g)', FollowsBut(g)', AsksInTurn(g)
  PROVE  SettledInv'
<1>1. LintWorker \in Goroutines \ {g} /\ g \in Goroutines
  BY DEF Others, Goroutines
<1>2. \A h \in Others \ {g} : pc'[h] = "idle" /\ task'[h] = task[h]
  BY DEF OnlyMoves, Others
<1>3. pc'[LintWorker] = pc[LintWorker] /\ task'[LintWorker] = task[LintWorker]
  BY <1>1 DEF OnlyMoves
<1>4. Alone'
  BY <1>2 DEF Alone
<1>5. Busy'
  BY <1>2 DEF Busy, RestsOrBusy
<1>6. LinterAt'
  BY <1>3 DEF SettledInv, LinterAt
<1>7. AllFollow'
  BY DEF AllFollow, FollowsBut
<1>8. (Requested \/ LintIsRight)'
  <2>1. CASE WillRequest(g)' \/ owed'
    BY <2>1 DEF Requested
  <2>2. CASE QuietForTracked /\ ~WillRequest(g) /\ Requested
    <3>1. \A h \in Others \ {g} : ~WillRequest(h)
      BY DEF WillRequest, Leaving, Gone
    <3>2. owed
      BY <2>2, <3>1 DEF Requested
    <3> QED
      BY <3>2 DEF AsksInTurn, Requested
  <2>3. CASE QuietForTracked /\ LintIsRight
    BY <1>3, <2>3, QuietKeepsLint
  <2> QED
    BY <2>1, <2>2, <2>3 DEF AsksInTurn, SettledInv
<1> QED
  BY <1>4, <1>5, <1>6, <1>7, <1>8 DEF SettledInv

\* The same for a step that changes nothing of the maps.
Untouched == cache' = cache /\ store' = store /\ UNCHANGED <<ignoring, client, owed, failed>>

\* A step that writes nothing keeps the invariant, if what is in hand stays right.
LEMMA LocalKeepsSettled ==
  ASSUME TypeInv, SettledInv, NEW g \in Others, OnlyMoves(g),
         \A h \in Others \ {g} : pc[h] = "idle",
         RestsOrBusy(g)', Untouched, WillRequest(g) => WillRequest(g)',
         \A f \in Files : Tracked(f) /\ InHand(g, f) => InHand(g, f)' \/ Follows(f)
  PROVE  SettledInv'
<1>1. \A f \in Files : (Tracked(f)' <=> Tracked(f)) /\ (Follows(f)' <=> Follows(f))
  BY DEF Untouched, Tracked, Follows
<1>2. \A h \in Others \ {g} : \A f \in Files : ~InHand(h, f)
  BY DEF InHand, Parsing, Leaving, Gone
<1>3. FollowsBut(g)
  BY <1>2 DEF SettledInv, AllFollow, FollowsBut
<1>4. FollowsBut(g)'
  BY <1>1, <1>3 DEF FollowsBut
<1>5. AsksInTurn(g)
  BY <1>1 DEF AsksInTurn, QuietForTracked, Untouched
<1> QED
  BY <1>4, <1>5, AloneKeepsSettled

\* What is known of a goroutine that takes a step: it is busy, and alone.
AtWork(g) ==
  /\ g \in Goroutines /\ g # LintWorker /\ pc[g] \in Labels /\ task[g] \in TaskTypes
  /\ g \in DOMAIN pc /\ g \in DOMAIN task
  /\ FitsAt(pc[g], task[g])
  /\ BusyAt(pc[g], task[g])
  /\ FollowsBut(g)
  /\ cache \in CacheTypes /\ store \in StoreTypes /\ disk \in [Files -> MaybeText]
  /\ client \in [Files -> MaybeText]

\* Texts, for the provers.
LEMMA TextFacts ==
  /\ Nothing \notin Texts /\ Empty # Nothing /\ Template # Nothing /\ Nothing \notin Good
  /\ Nothing \notin Bad /\ Clean \notin Bad /\ Good \intersect Bad = {} /\ Empty \in Bad
  /\ Template \in Good
BY TextsAreDistinct DEF Texts

\* A goroutine that is busy is at its work, and all others rest.
LEMMA BusyIsAtWork ==
  ASSUME TypeInv, SettledInv, NEW g \in Others, pc[g] # "idle"
  PROVE  AtWork(g) /\ \A h \in Others \ {g} : pc[h] = "idle"
<1>1. /\ g \in Goroutines /\ g # LintWorker /\ pc[g] \in Labels /\ task[g] \in TaskTypes
      /\ g \in DOMAIN pc /\ g \in DOMAIN task
      /\ FitsAt(pc[g], task[g])
  BY DEF Others, TypeInv
<1>2. \A h \in Others \ {g} : pc[h] = "idle"
  BY DEF SettledInv, Alone
<1>3. BusyAt(pc[g], task[g])
  BY DEF SettledInv, Busy, RestsOrBusy
<1>4. \A h \in Others \ {g} : \A f \in Files : ~InHand(h, f)
  BY <1>2 DEF InHand, Parsing, Leaving, Gone
<1>5. FollowsBut(g)
  BY <1>4 DEF SettledInv, AllFollow, FollowsBut
<1>6. /\ cache \in CacheTypes /\ store \in StoreTypes /\ disk \in [Files -> MaybeText]
      /\ client \in [Files -> MaybeText]
  BY DEF TypeInv, MapsOK, WorldOK
<1> QED
  BY <1>1, <1>2, <1>3, <1>5, <1>6 DEF AtWork

\* The steps that change none of the maps.
LEMMA LocalStepsKeepSettled ==
  ASSUME TypeInv, TypeInv', SettledInv, NEW g \in Others, pc[g] # "idle",
         \/ Decide(g) \/ CheckTemplating(g) \/ RequestTemplate(g) \/ ParseRead(g)
         \/ AfterParse(g) \/ CheckHasContents(g) \/ ReadDisk(g) \/ CompareContents(g)
         \/ Stat(g) \/ RenameRead(g) \/ RenameTarget(g) \/ SendErrors(g)
         \/ SendDiags(g) \/ FormatRead(g) \/ MarkTemplating(g) \/ CheckEmpty(g)
         \/ CheckEmptyOnDisk(g) \/ ApplyTemplate(g) \/ UnmarkTemplating(g)
         \/ FixMismatch(g) \/ MoveFrom(g) \/ MoveTo(g) \/ MovePut(g)
  PROVE  SettledInv'
<1>1. AtWork(g)
  BY BusyIsAtWork
<1>2. \A h \in Others \ {g} : pc[h] = "idle"
  BY BusyIsAtWork
<1>3. CASE Decide(g)
  <2>1. OnlyMoves(g)
    BY <1>3 DEF Decide, OnlyMoves, LocalStep, Goto, Finish, TypeInv
  <2>2. Untouched
    BY <1>3 DEF Decide, Untouched, LocalStep, config, outside, runs
  <2>3. RestsOrBusy(g)'
    BY <1>1, <1>3, <2>2, TextFacts DEF Decide, AtWork, FitsAt, FileLess,
       RestsOrBusy, Untouched, BusyAt, BusyPlaces, Derived, WithText, Parsing,
       Leaving, Gone, AllOps, Goto, Finish, TaskTypes, CacheTypes
  <2>4. WillRequest(g) => WillRequest(g)'
    BY <1>1, <1>3, <2>2, TextFacts DEF Decide, AtWork, FitsAt, FileLess,
       WillRequest, Untouched, BusyAt, BusyPlaces, Derived, WithText, Parsing,
       Leaving, Gone, HasContents, Goto, Finish, TaskTypes, CacheTypes
  <2>5. \A f \in Files : Tracked(f) /\ InHand(g, f) => InHand(g, f)' \/ Follows(f)
    BY <1>1, <1>3, <2>2, TextFacts DEF Decide, AtWork, FitsAt, FileLess,
       InHand, Follows, Tracked, BusyAt, BusyPlaces, Derived, WithText,
       Parsing, Leaving, Gone, Goto, Finish, TaskTypes, CacheTypes
  <2> QED
    BY <1>2, <2>1, <2>2, <2>3, <2>4, <2>5, LocalKeepsSettled
<1>4. CASE CheckTemplating(g)
  <2>1. OnlyMoves(g)
    BY <1>4 DEF CheckTemplating, OnlyMoves, LocalStep, Goto, TypeInv
  <2>2. Untouched
    BY <1>4 DEF CheckTemplating, Untouched, LocalStep, config, outside, runs
  <2>3. RestsOrBusy(g)'
    BY <1>1, <1>4, <2>2, TextFacts DEF CheckTemplating, AtWork, FitsAt,
       FileLess, RestsOrBusy, Untouched, BusyAt, BusyPlaces, Derived,
       WithText, Parsing, Leaving, Gone, AllOps, Goto, TaskTypes, CacheTypes
  <2>4. WillRequest(g) => WillRequest(g)'
    BY <1>1, <1>4, <2>2, TextFacts DEF CheckTemplating, AtWork, FitsAt,
       FileLess, WillRequest, Untouched, BusyAt, BusyPlaces, Derived,
       WithText, Parsing, Leaving, Gone, HasContents, Goto, TaskTypes,
       CacheTypes
  <2>5. \A f \in Files : Tracked(f) /\ InHand(g, f) => InHand(g, f)' \/ Follows(f)
    BY <1>1, <1>4, <2>2, TextFacts DEF CheckTemplating, AtWork, FitsAt,
       FileLess, InHand, Follows, Tracked, BusyAt, BusyPlaces, Derived,
       WithText, Parsing, Leaving, Gone, Goto, TaskTypes, CacheTypes
  <2> QED
    BY <1>2, <2>1, <2>2, <2>3, <2>4, <2>5, LocalKeepsSettled
<1>5. CASE RequestTemplate(g)
  <2>1. OnlyMoves(g)
    BY <1>5 DEF RequestTemplate, OnlyMoves, Finish, TypeInv
  <2>2. Untouched
    BY <1>5 DEF RequestTemplate, Untouched, outside, runs
  <2>3. RestsOrBusy(g)'
    BY <1>1, <1>5, <2>2, TextFacts DEF RequestTemplate, AtWork, FitsAt,
       FileLess, RestsOrBusy, Untouched, BusyAt, BusyPlaces, Derived,
       WithText, Parsing, Leaving, Gone, AllOps, Finish, TaskTypes, CacheTypes
  <2>4. WillRequest(g) => WillRequest(g)'
    BY <1>1, <1>5, <2>2, TextFacts DEF RequestTemplate, AtWork, FitsAt,
       FileLess, WillRequest, Untouched, BusyAt, BusyPlaces, Derived,
       WithText, Parsing, Leaving, Gone, HasContents, Finish, TaskTypes,
       CacheTypes
  <2>5. \A f \in Files : Tracked(f) /\ InHand(g, f) => InHand(g, f)' \/ Follows(f)
    BY <1>1, <1>5, <2>2, TextFacts DEF RequestTemplate, AtWork, FitsAt,
       FileLess, InHand, Follows, Tracked, BusyAt, BusyPlaces, Derived,
       WithText, Parsing, Leaving, Gone, Finish, TaskTypes, CacheTypes
  <2> QED
    BY <1>2, <2>1, <2>2, <2>3, <2>4, <2>5, LocalKeepsSettled
<1>6. CASE ParseRead(g)
  <2>1. OnlyMoves(g)
    BY <1>6 DEF ParseRead, OnlyMoves, LocalStep, Goto, TypeInv
  <2>2. Untouched
    BY <1>6 DEF ParseRead, Untouched, LocalStep, config, outside, runs
  <2>3. RestsOrBusy(g)'
    BY <1>1, <1>6, <2>2, TextFacts DEF ParseRead, AtWork, FitsAt, FileLess,
       RestsOrBusy, Untouched, BusyAt, BusyPlaces, Derived, WithText, Parsing,
       Leaving, Gone, AllOps, Goto, TaskTypes, CacheTypes
  <2>4. WillRequest(g) => WillRequest(g)'
    BY <1>1, <1>6, <2>2, TextFacts DEF ParseRead, AtWork, FitsAt, FileLess,
       WillRequest, Untouched, BusyAt, BusyPlaces, Derived, WithText, Parsing,
       Leaving, Gone, HasContents, Goto, TaskTypes, CacheTypes
  <2>5. \A f \in Files : Tracked(f) /\ InHand(g, f) => InHand(g, f)' \/ Follows(f)
    BY <1>1, <1>6, <2>2, TextFacts DEF ParseRead, AtWork, FitsAt, FileLess,
       InHand, Follows, Tracked, BusyAt, BusyPlaces, Derived, WithText,
       Parsing, Leaving, Gone, Goto, TaskTypes, CacheTypes
  <2> QED
    BY <1>2, <2>1, <2>2, <2>3, <2>4, <2>5, LocalKeepsSettled
<1>7. CASE AfterParse(g)
  <2>1. OnlyMoves(g)
    BY <1>7 DEF AfterParse, OnlyMoves, LocalStep, Goto, Finish, TypeInv
  <2>2. Untouched
    BY <1>7 DEF AfterParse, Untouched, LocalStep, config, outside, runs
  <2>3. RestsOrBusy(g)'
    BY <1>1, <1>7, <2>2, TextFacts DEF AfterParse, AtWork, FitsAt, FileLess,
       RestsOrBusy, Untouched, BusyAt, BusyPlaces, Derived, WithText, Parsing,
       Leaving, Gone, AllOps, Goto, Finish, TaskTypes, CacheTypes
  <2>4. WillRequest(g) => WillRequest(g)'
    BY <1>1, <1>7, <2>2, TextFacts DEF AfterParse, AtWork, FitsAt, FileLess,
       WillRequest, Untouched, BusyAt, BusyPlaces, Derived, WithText, Parsing,
       Leaving, Gone, HasContents, Goto, Finish, TaskTypes, CacheTypes
  <2>5. \A f \in Files : Tracked(f) /\ InHand(g, f) => InHand(g, f)' \/ Follows(f)
    BY <1>1, <1>7, <2>2, TextFacts DEF AfterParse, AtWork, FitsAt, FileLess,
       InHand, Follows, Tracked, BusyAt, BusyPlaces, Derived, WithText,
       Parsing, Leaving, Gone, Goto, Finish, TaskTypes, CacheTypes
  <2> QED
    BY <1>2, <2>1, <2>2, <2>3, <2>4, <2>5, LocalKeepsSettled
<1>8. CASE CheckHasContents(g)
  <2>1. OnlyMoves(g)
    BY <1>8 DEF CheckHasContents, OnlyMoves, LocalStep, Goto, Finish, TypeInv
  <2>2. Untouched
    BY <1>8 DEF CheckHasContents, Untouched, LocalStep, config, outside, runs
  <2>3. RestsOrBusy(g)'
    BY <1>1, <1>8, <2>2, TextFacts DEF CheckHasContents, AtWork, FitsAt,
       FileLess, RestsOrBusy, Untouched, BusyAt, BusyPlaces, Derived,
       WithText, Parsing, Leaving, Gone, AllOps, Goto, Finish, TaskTypes,
       CacheTypes
  <2>4. WillRequest(g) => WillRequest(g)'
    BY <1>1, <1>8, <2>2, TextFacts DEF CheckHasContents, AtWork, FitsAt,
       FileLess, WillRequest, Untouched, BusyAt, BusyPlaces, Derived,
       WithText, Parsing, Leaving, Gone, HasContents, Goto, Finish, TaskTypes,
       CacheTypes
  <2>5. \A f \in Files : Tracked(f) /\ InHand(g, f) => InHand(g, f)' \/ Follows(f)
    BY <1>1, <1>8, <2>2, TextFacts DEF CheckHasContents, AtWork, FitsAt,
       FileLess, InHand, Follows, Tracked, BusyAt, BusyPlaces, Derived,
       WithText, Parsing, Leaving, Gone, Goto, Finish, TaskTypes, CacheTypes
  <2> QED
    BY <1>2, <2>1, <2>2, <2>3, <2>4, <2>5, LocalKeepsSettled
<1>9. CASE ReadDisk(g)
  <2>1. OnlyMoves(g)
    BY <1>9 DEF ReadDisk, OnlyMoves, LocalStep, Goto, Finish, TypeInv, Target
  <2>2. Untouched
    BY <1>9 DEF ReadDisk, Untouched, LocalStep, config, outside, runs, Target
  <2>3. RestsOrBusy(g)'
    BY <1>1, <1>9, <2>2, TextFacts DEF ReadDisk, AtWork, FitsAt, FileLess,
       RestsOrBusy, Untouched, BusyAt, BusyPlaces, Derived, WithText, Parsing,
       Leaving, Gone, AllOps, Goto, Finish, TaskTypes, CacheTypes, Target
  <2>4. WillRequest(g) => WillRequest(g)'
    BY <1>1, <1>9, <2>2, TextFacts DEF ReadDisk, AtWork, FitsAt, FileLess,
       WillRequest, Untouched, BusyAt, BusyPlaces, Derived, WithText, Parsing,
       Leaving, Gone, HasContents, Goto, Finish, TaskTypes, CacheTypes, Target
  <2>5. \A f \in Files : Tracked(f) /\ InHand(g, f) => InHand(g, f)' \/ Follows(f)
    BY <1>1, <1>9, <2>2, TextFacts DEF ReadDisk, AtWork, FitsAt, FileLess,
       InHand, Follows, Tracked, BusyAt, BusyPlaces, Derived, WithText,
       Parsing, Leaving, Gone, Goto, Finish, TaskTypes, CacheTypes, Target
  <2> QED
    BY <1>2, <2>1, <2>2, <2>3, <2>4, <2>5, LocalKeepsSettled
<1>10. CASE CompareContents(g)
  <2>1. OnlyMoves(g)
    BY <1>10 DEF CompareContents, OnlyMoves, LocalStep, Goto, Finish, TypeInv,
       AfterUpdate, Target
  <2>2. Untouched
    BY <1>10 DEF CompareContents, Untouched, LocalStep, config, outside, runs,
       AfterUpdate, Target
  <2>3. RestsOrBusy(g)'
    BY <1>1, <1>10, <2>2, TextFacts DEF CompareContents, AtWork, FitsAt,
       FileLess, RestsOrBusy, Untouched, BusyAt, BusyPlaces, Derived,
       WithText, Parsing, Leaving, Gone, AllOps, Goto, Finish, TaskTypes,
       CacheTypes, AfterUpdate, Target
  <2>4. WillRequest(g) => WillRequest(g)'
    BY <1>1, <1>10, <2>2, TextFacts DEF CompareContents, AtWork, FitsAt,
       FileLess, WillRequest, Untouched, BusyAt, BusyPlaces, Derived,
       WithText, Parsing, Leaving, Gone, HasContents, Goto, Finish, TaskTypes,
       CacheTypes, AfterUpdate, Target
  <2>5. \A f \in Files : Tracked(f) /\ InHand(g, f) => InHand(g, f)' \/ Follows(f)
    BY <1>1, <1>10, <2>2, TextFacts DEF CompareContents, AtWork, FitsAt,
       FileLess, InHand, Follows, Tracked, BusyAt, BusyPlaces, Derived,
       WithText, Parsing, Leaving, Gone, Goto, Finish, TaskTypes, CacheTypes,
       AfterUpdate, Target
  <2> QED
    BY <1>2, <2>1, <2>2, <2>3, <2>4, <2>5, LocalKeepsSettled
<1>11. CASE Stat(g)
  <2>1. OnlyMoves(g)
    BY <1>11 DEF Stat, OnlyMoves, LocalStep, Goto, Finish, TypeInv
  <2>2. Untouched
    BY <1>11 DEF Stat, Untouched, LocalStep, config, outside, runs
  <2>3. RestsOrBusy(g)'
    BY <1>1, <1>11, <2>2, TextFacts DEF Stat, AtWork, FitsAt, FileLess,
       RestsOrBusy, Untouched, BusyAt, BusyPlaces, Derived, WithText, Parsing,
       Leaving, Gone, AllOps, Goto, Finish, TaskTypes, CacheTypes
  <2>4. WillRequest(g) => WillRequest(g)'
    BY <1>1, <1>11, <2>2, TextFacts DEF Stat, AtWork, FitsAt, FileLess,
       WillRequest, Untouched, BusyAt, BusyPlaces, Derived, WithText, Parsing,
       Leaving, Gone, HasContents, Goto, Finish, TaskTypes, CacheTypes
  <2>5. \A f \in Files : Tracked(f) /\ InHand(g, f) => InHand(g, f)' \/ Follows(f)
    BY <1>1, <1>11, <2>2, TextFacts DEF Stat, AtWork, FitsAt, FileLess,
       InHand, Follows, Tracked, BusyAt, BusyPlaces, Derived, WithText,
       Parsing, Leaving, Gone, Goto, Finish, TaskTypes, CacheTypes
  <2> QED
    BY <1>2, <2>1, <2>2, <2>3, <2>4, <2>5, LocalKeepsSettled
<1>12. CASE RenameRead(g)
  <2>1. OnlyMoves(g)
    BY <1>12 DEF RenameRead, OnlyMoves, LocalStep, Goto, TypeInv
  <2>2. Untouched
    BY <1>12 DEF RenameRead, Untouched, LocalStep, config, outside, runs
  <2>3. RestsOrBusy(g)'
    BY <1>1, <1>12, <2>2, TextFacts DEF RenameRead, AtWork, FitsAt, FileLess,
       RestsOrBusy, Untouched, BusyAt, BusyPlaces, Derived, WithText, Parsing,
       Leaving, Gone, AllOps, Goto, TaskTypes, CacheTypes
  <2>4. WillRequest(g) => WillRequest(g)'
    BY <1>1, <1>12, <2>2, TextFacts DEF RenameRead, AtWork, FitsAt, FileLess,
       WillRequest, Untouched, BusyAt, BusyPlaces, Derived, WithText, Parsing,
       Leaving, Gone, HasContents, Goto, TaskTypes, CacheTypes
  <2>5. \A f \in Files : Tracked(f) /\ InHand(g, f) => InHand(g, f)' \/ Follows(f)
    BY <1>1, <1>12, <2>2, TextFacts DEF RenameRead, AtWork, FitsAt, FileLess,
       InHand, Follows, Tracked, BusyAt, BusyPlaces, Derived, WithText,
       Parsing, Leaving, Gone, Goto, TaskTypes, CacheTypes
  <2> QED
    BY <1>2, <2>1, <2>2, <2>3, <2>4, <2>5, LocalKeepsSettled
<1>13. CASE RenameTarget(g)
  <2>1. OnlyMoves(g)
    BY <1>13 DEF RenameTarget, OnlyMoves, LocalStep, Goto, Finish, TypeInv
  <2>2. Untouched
    BY <1>13 DEF RenameTarget, Untouched, LocalStep, config, outside, runs
  <2>3. RestsOrBusy(g)'
    BY <1>1, <1>13, <2>2, TextFacts DEF RenameTarget, AtWork, FitsAt,
       FileLess, RestsOrBusy, Untouched, BusyAt, BusyPlaces, Derived,
       WithText, Parsing, Leaving, Gone, AllOps, Goto, Finish, TaskTypes,
       CacheTypes
  <2>4. WillRequest(g) => WillRequest(g)'
    BY <1>1, <1>13, <2>2, TextFacts DEF RenameTarget, AtWork, FitsAt,
       FileLess, WillRequest, Untouched, BusyAt, BusyPlaces, Derived,
       WithText, Parsing, Leaving, Gone, HasContents, Goto, Finish, TaskTypes,
       CacheTypes
  <2>5. \A f \in Files : Tracked(f) /\ InHand(g, f) => InHand(g, f)' \/ Follows(f)
    BY <1>1, <1>13, <2>2, TextFacts DEF RenameTarget, AtWork, FitsAt,
       FileLess, InHand, Follows, Tracked, BusyAt, BusyPlaces, Derived,
       WithText, Parsing, Leaving, Gone, Goto, Finish, TaskTypes, CacheTypes
  <2> QED
    BY <1>2, <2>1, <2>2, <2>3, <2>4, <2>5, LocalKeepsSettled
<1>14. CASE SendErrors(g)
  <2>1. OnlyMoves(g)
    BY <1>14 DEF SendErrors, OnlyMoves, LocalStep, Goto, TypeInv
  <2>2. Untouched
    BY <1>14 DEF SendErrors, Untouched, LocalStep, config, outside, runs
  <2>3. RestsOrBusy(g)'
    BY <1>1, <1>14, <2>2, TextFacts DEF SendErrors, AtWork, FitsAt, FileLess,
       RestsOrBusy, Untouched, BusyAt, BusyPlaces, Derived, WithText, Parsing,
       Leaving, Gone, AllOps, Goto, TaskTypes, CacheTypes
  <2>4. WillRequest(g) => WillRequest(g)'
    BY <1>1, <1>14, <2>2, TextFacts DEF SendErrors, AtWork, FitsAt, FileLess,
       WillRequest, Untouched, BusyAt, BusyPlaces, Derived, WithText, Parsing,
       Leaving, Gone, HasContents, Goto, TaskTypes, CacheTypes
  <2>5. \A f \in Files : Tracked(f) /\ InHand(g, f) => InHand(g, f)' \/ Follows(f)
    BY <1>1, <1>14, <2>2, TextFacts DEF SendErrors, AtWork, FitsAt, FileLess,
       InHand, Follows, Tracked, BusyAt, BusyPlaces, Derived, WithText,
       Parsing, Leaving, Gone, Goto, TaskTypes, CacheTypes
  <2> QED
    BY <1>2, <2>1, <2>2, <2>3, <2>4, <2>5, LocalKeepsSettled
<1>15. CASE SendDiags(g)
  <2>1. OnlyMoves(g)
    BY <1>15 DEF SendDiags, OnlyMoves, LocalStep, Goto, TypeInv
  <2>2. Untouched
    BY <1>15 DEF SendDiags, Untouched, LocalStep, config, outside, runs
  <2>3. RestsOrBusy(g)'
    BY <1>1, <1>15, <2>2, TextFacts DEF SendDiags, AtWork, FitsAt, FileLess,
       RestsOrBusy, Untouched, BusyAt, BusyPlaces, Derived, WithText, Parsing,
       Leaving, Gone, AllOps, Goto, TaskTypes, CacheTypes
  <2>4. WillRequest(g) => WillRequest(g)'
    BY <1>1, <1>15, <2>2, TextFacts DEF SendDiags, AtWork, FitsAt, FileLess,
       WillRequest, Untouched, BusyAt, BusyPlaces, Derived, WithText, Parsing,
       Leaving, Gone, HasContents, Goto, TaskTypes, CacheTypes
  <2>5. \A f \in Files : Tracked(f) /\ InHand(g, f) => InHand(g, f)' \/ Follows(f)
    BY <1>1, <1>15, <2>2, TextFacts DEF SendDiags, AtWork, FitsAt, FileLess,
       InHand, Follows, Tracked, BusyAt, BusyPlaces, Derived, WithText,
       Parsing, Leaving, Gone, Goto, TaskTypes, CacheTypes
  <2> QED
    BY <1>2, <2>1, <2>2, <2>3, <2>4, <2>5, LocalKeepsSettled
<1>16. CASE FormatRead(g)
  <2>1. OnlyMoves(g)
    BY <1>16 DEF FormatRead, OnlyMoves, LocalStep, Goto, Finish, TypeInv
  <2>2. Untouched
    BY <1>16 DEF FormatRead, Untouched, LocalStep, config, outside, runs
  <2>3. RestsOrBusy(g)'
    BY <1>1, <1>16, <2>2, TextFacts DEF FormatRead, AtWork, FitsAt, FileLess,
       RestsOrBusy, Untouched, BusyAt, BusyPlaces, Derived, WithText, Parsing,
       Leaving, Gone, AllOps, Goto, Finish, TaskTypes, CacheTypes
  <2>4. WillRequest(g) => WillRequest(g)'
    BY <1>1, <1>16, <2>2, TextFacts DEF FormatRead, AtWork, FitsAt, FileLess,
       WillRequest, Untouched, BusyAt, BusyPlaces, Derived, WithText, Parsing,
       Leaving, Gone, HasContents, Goto, Finish, TaskTypes, CacheTypes
  <2>5. \A f \in Files : Tracked(f) /\ InHand(g, f) => InHand(g, f)' \/ Follows(f)
    BY <1>1, <1>16, <2>2, TextFacts DEF FormatRead, AtWork, FitsAt, FileLess,
       InHand, Follows, Tracked, BusyAt, BusyPlaces, Derived, WithText,
       Parsing, Leaving, Gone, Goto, Finish, TaskTypes, CacheTypes
  <2> QED
    BY <1>2, <2>1, <2>2, <2>3, <2>4, <2>5, LocalKeepsSettled
<1>17. CASE MarkTemplating(g)
  <2>1. OnlyMoves(g)
    BY <1>17 DEF MarkTemplating, OnlyMoves, Goto, TypeInv
  <2>2. Untouched
    BY <1>17 DEF MarkTemplating, Untouched, outside, runs
  <2>3. RestsOrBusy(g)'
    BY <1>1, <1>17, <2>2, TextFacts DEF MarkTemplating, AtWork, FitsAt,
       FileLess, RestsOrBusy, Untouched, BusyAt, BusyPlaces, Derived,
       WithText, Parsing, Leaving, Gone, AllOps, Goto, TaskTypes, CacheTypes
  <2>4. WillRequest(g) => WillRequest(g)'
    BY <1>1, <1>17, <2>2, TextFacts DEF MarkTemplating, AtWork, FitsAt,
       FileLess, WillRequest, Untouched, BusyAt, BusyPlaces, Derived,
       WithText, Parsing, Leaving, Gone, HasContents, Goto, TaskTypes,
       CacheTypes
  <2>5. \A f \in Files : Tracked(f) /\ InHand(g, f) => InHand(g, f)' \/ Follows(f)
    BY <1>1, <1>17, <2>2, TextFacts DEF MarkTemplating, AtWork, FitsAt,
       FileLess, InHand, Follows, Tracked, BusyAt, BusyPlaces, Derived,
       WithText, Parsing, Leaving, Gone, Goto, TaskTypes, CacheTypes
  <2> QED
    BY <1>2, <2>1, <2>2, <2>3, <2>4, <2>5, LocalKeepsSettled
<1>18. CASE CheckEmpty(g)
  <2>1. OnlyMoves(g)
    BY <1>18 DEF CheckEmpty, OnlyMoves, LocalStep, Goto, Finish, TypeInv,
       GiveUpTemplate
  <2>2. Untouched
    BY <1>18 DEF CheckEmpty, Untouched, LocalStep, config, outside, runs,
       GiveUpTemplate
  <2>3. RestsOrBusy(g)'
    BY <1>1, <1>18, <2>2, TextFacts DEF CheckEmpty, AtWork, FitsAt, FileLess,
       RestsOrBusy, Untouched, BusyAt, BusyPlaces, Derived, WithText, Parsing,
       Leaving, Gone, AllOps, Goto, Finish, TaskTypes, CacheTypes,
       GiveUpTemplate
  <2>4. WillRequest(g) => WillRequest(g)'
    BY <1>1, <1>18, <2>2, TextFacts DEF CheckEmpty, AtWork, FitsAt, FileLess,
       WillRequest, Untouched, BusyAt, BusyPlaces, Derived, WithText, Parsing,
       Leaving, Gone, HasContents, Goto, Finish, TaskTypes, CacheTypes,
       GiveUpTemplate
  <2>5. \A f \in Files : Tracked(f) /\ InHand(g, f) => InHand(g, f)' \/ Follows(f)
    BY <1>1, <1>18, <2>2, TextFacts DEF CheckEmpty, AtWork, FitsAt, FileLess,
       InHand, Follows, Tracked, BusyAt, BusyPlaces, Derived, WithText,
       Parsing, Leaving, Gone, Goto, Finish, TaskTypes, CacheTypes,
       GiveUpTemplate
  <2> QED
    BY <1>2, <2>1, <2>2, <2>3, <2>4, <2>5, LocalKeepsSettled
<1>19. CASE CheckEmptyOnDisk(g)
  <2>1. OnlyMoves(g)
    BY <1>19 DEF CheckEmptyOnDisk, OnlyMoves, LocalStep, Goto, Finish,
       TypeInv, GiveUpTemplate
  <2>2. Untouched
    BY <1>19 DEF CheckEmptyOnDisk, Untouched, LocalStep, config, outside,
       runs, GiveUpTemplate
  <2>3. RestsOrBusy(g)'
    BY <1>1, <1>19, <2>2, TextFacts DEF CheckEmptyOnDisk, AtWork, FitsAt,
       FileLess, RestsOrBusy, Untouched, BusyAt, BusyPlaces, Derived,
       WithText, Parsing, Leaving, Gone, AllOps, Goto, Finish, TaskTypes,
       CacheTypes, GiveUpTemplate
  <2>4. WillRequest(g) => WillRequest(g)'
    BY <1>1, <1>19, <2>2, TextFacts DEF CheckEmptyOnDisk, AtWork, FitsAt,
       FileLess, WillRequest, Untouched, BusyAt, BusyPlaces, Derived,
       WithText, Parsing, Leaving, Gone, HasContents, Goto, Finish, TaskTypes,
       CacheTypes, GiveUpTemplate
  <2>5. \A f \in Files : Tracked(f) /\ InHand(g, f) => InHand(g, f)' \/ Follows(f)
    BY <1>1, <1>19, <2>2, TextFacts DEF CheckEmptyOnDisk, AtWork, FitsAt,
       FileLess, InHand, Follows, Tracked, BusyAt, BusyPlaces, Derived,
       WithText, Parsing, Leaving, Gone, Goto, Finish, TaskTypes, CacheTypes,
       GiveUpTemplate
  <2> QED
    BY <1>2, <2>1, <2>2, <2>3, <2>4, <2>5, LocalKeepsSettled
<1>20. CASE ApplyTemplate(g)
  <2>1. OnlyMoves(g)
    BY <1>20 DEF ApplyTemplate, OnlyMoves, LocalStep, Goto, TypeInv
  <2>2. Untouched
    BY <1>20 DEF ApplyTemplate, Untouched, LocalStep, config, outside, runs
  <2>3. RestsOrBusy(g)'
    BY <1>1, <1>20, <2>2, TextFacts DEF ApplyTemplate, AtWork, FitsAt,
       FileLess, RestsOrBusy, Untouched, BusyAt, BusyPlaces, Derived,
       WithText, Parsing, Leaving, Gone, AllOps, Goto, TaskTypes, CacheTypes
  <2>4. WillRequest(g) => WillRequest(g)'
    BY <1>1, <1>20, <2>2, TextFacts DEF ApplyTemplate, AtWork, FitsAt,
       FileLess, WillRequest, Untouched, BusyAt, BusyPlaces, Derived,
       WithText, Parsing, Leaving, Gone, HasContents, Goto, TaskTypes,
       CacheTypes
  <2>5. \A f \in Files : Tracked(f) /\ InHand(g, f) => InHand(g, f)' \/ Follows(f)
    BY <1>1, <1>20, <2>2, TextFacts DEF ApplyTemplate, AtWork, FitsAt,
       FileLess, InHand, Follows, Tracked, BusyAt, BusyPlaces, Derived,
       WithText, Parsing, Leaving, Gone, Goto, TaskTypes, CacheTypes
  <2> QED
    BY <1>2, <2>1, <2>2, <2>3, <2>4, <2>5, LocalKeepsSettled
<1>21. CASE UnmarkTemplating(g)
  <2>1. OnlyMoves(g)
    BY <1>21 DEF UnmarkTemplating, OnlyMoves, Finish, TypeInv
  <2>2. Untouched
    BY <1>21 DEF UnmarkTemplating, Untouched, outside, runs
  <2>3. RestsOrBusy(g)'
    BY <1>1, <1>21, <2>2, TextFacts DEF UnmarkTemplating, AtWork, FitsAt,
       FileLess, RestsOrBusy, Untouched, BusyAt, BusyPlaces, Derived,
       WithText, Parsing, Leaving, Gone, AllOps, Finish, TaskTypes, CacheTypes
  <2>4. WillRequest(g) => WillRequest(g)'
    BY <1>1, <1>21, <2>2, TextFacts DEF UnmarkTemplating, AtWork, FitsAt,
       FileLess, WillRequest, Untouched, BusyAt, BusyPlaces, Derived,
       WithText, Parsing, Leaving, Gone, HasContents, Finish, TaskTypes,
       CacheTypes
  <2>5. \A f \in Files : Tracked(f) /\ InHand(g, f) => InHand(g, f)' \/ Follows(f)
    BY <1>1, <1>21, <2>2, TextFacts DEF UnmarkTemplating, AtWork, FitsAt,
       FileLess, InHand, Follows, Tracked, BusyAt, BusyPlaces, Derived,
       WithText, Parsing, Leaving, Gone, Finish, TaskTypes, CacheTypes
  <2> QED
    BY <1>2, <2>1, <2>2, <2>3, <2>4, <2>5, LocalKeepsSettled
<1>22. CASE FixMismatch(g)
  <2>1. OnlyMoves(g)
    BY <1>22 DEF FixMismatch, OnlyMoves, LocalStep, Goto, TypeInv
  <2>2. Untouched
    BY <1>22 DEF FixMismatch, Untouched, LocalStep, config, outside, runs
  <2>3. RestsOrBusy(g)'
    BY <1>1, <1>22, <2>2, TextFacts DEF FixMismatch, AtWork, FitsAt,
       FileLess, RestsOrBusy, Untouched, BusyAt, BusyPlaces, Derived,
       WithText, Parsing, Leaving, Gone, AllOps, Goto, TaskTypes, CacheTypes
  <2>4. WillRequest(g) => WillRequest(g)'
    BY <1>1, <1>22, <2>2, TextFacts DEF FixMismatch, AtWork, FitsAt,
       FileLess, WillRequest, Untouched, BusyAt, BusyPlaces, Derived,
       WithText, Parsing, Leaving, Gone, HasContents, Goto, TaskTypes,
       CacheTypes
  <2>5. \A f \in Files : Tracked(f) /\ InHand(g, f) => InHand(g, f)' \/ Follows(f)
    BY <1>1, <1>22, <2>2, TextFacts DEF FixMismatch, AtWork, FitsAt,
       FileLess, InHand, Follows, Tracked, BusyAt, BusyPlaces, Derived,
       WithText, Parsing, Leaving, Gone, Goto, TaskTypes, CacheTypes
  <2> QED
    BY <1>2, <2>1, <2>2, <2>3, <2>4, <2>5, LocalKeepsSettled
<1>23. CASE MoveFrom(g)
  <2>1. OnlyMoves(g)
    BY <1>23 DEF MoveFrom, OnlyMoves, LocalStep, Goto, TypeInv
  <2>2. Untouched
    BY <1>23 DEF MoveFrom, Untouched, LocalStep, config, outside, runs
  <2>3. RestsOrBusy(g)'
    BY <1>1, <1>23, <2>2, TextFacts DEF MoveFrom, AtWork, FitsAt,
       FileLess, RestsOrBusy, Untouched, BusyAt, BusyPlaces, Derived,
       WithText, Parsing, Leaving, Gone, AllOps, Goto, TaskTypes, CacheTypes
  <2>4. WillRequest(g) => WillRequest(g)'
    BY <1>1, <1>23, <2>2, TextFacts DEF MoveFrom, AtWork, FitsAt,
       FileLess, WillRequest, Untouched, BusyAt, BusyPlaces, Derived,
       WithText, Parsing, Leaving, Gone, HasContents, Goto, TaskTypes,
       CacheTypes
  <2>5. \A f \in Files : Tracked(f) /\ InHand(g, f) => InHand(g, f)' \/ Follows(f)
    BY <1>1, <1>23, <2>2, TextFacts DEF MoveFrom, AtWork, FitsAt,
       FileLess, InHand, Follows, Tracked, BusyAt, BusyPlaces, Derived,
       WithText, Parsing, Leaving, Gone, Goto, TaskTypes, CacheTypes
  <2> QED
    BY <1>2, <2>1, <2>2, <2>3, <2>4, <2>5, LocalKeepsSettled
<1>24. CASE MoveTo(g)
  <2>1. OnlyMoves(g)
    BY <1>24 DEF MoveTo, OnlyMoves, LocalStep, Goto, TypeInv
  <2>2. Untouched
    BY <1>24 DEF MoveTo, Untouched, LocalStep, config, outside, runs
  <2>3. RestsOrBusy(g)'
    BY <1>1, <1>24, <2>2, TextFacts DEF MoveTo, AtWork, FitsAt,
       FileLess, RestsOrBusy, Untouched, BusyAt, BusyPlaces, Derived,
       WithText, Parsing, Leaving, Gone, AllOps, Goto, TaskTypes, CacheTypes, AllFiles
  <2>4. WillRequest(g) => WillRequest(g)'
    BY <1>1, <1>24, <2>2, TextFacts DEF MoveTo, AtWork, FitsAt,
       FileLess, WillRequest, Untouched, BusyAt, BusyPlaces, Derived,
       WithText, Parsing, Leaving, Gone, HasContents, Goto, TaskTypes,
       CacheTypes
  <2>5. \A f \in Files : Tracked(f) /\ InHand(g, f) => InHand(g, f)' \/ Follows(f)
    BY <1>1, <1>24, <2>2, TextFacts DEF MoveTo, AtWork, FitsAt,
       FileLess, InHand, Follows, Tracked, BusyAt, BusyPlaces, Derived,
       WithText, Parsing, Leaving, Gone, Goto, TaskTypes, CacheTypes, AllFiles
  <2> QED
    BY <1>2, <2>1, <2>2, <2>3, <2>4, <2>5, LocalKeepsSettled
<1>25. CASE MovePut(g)
  <2>1. OnlyMoves(g)
    BY <1>25 DEF MovePut, OnlyMoves, LocalStep, Goto, TypeInv
  <2>2. Untouched
    BY <1>25 DEF MovePut, Untouched, LocalStep, config, outside, runs
  <2>3. RestsOrBusy(g)'
    BY <1>1, <1>25, <2>2, TextFacts DEF MovePut, AtWork, FitsAt,
       FileLess, RestsOrBusy, Untouched, BusyAt, BusyPlaces, Derived,
       WithText, Parsing, Leaving, Gone, AllOps, Goto, TaskTypes, CacheTypes
  <2>4. WillRequest(g) => WillRequest(g)'
    BY <1>1, <1>25, <2>2, TextFacts DEF MovePut, AtWork, FitsAt,
       FileLess, WillRequest, Untouched, BusyAt, BusyPlaces, Derived,
       WithText, Parsing, Leaving, Gone, HasContents, Goto, TaskTypes,
       CacheTypes
  <2>5. \A f \in Files : Tracked(f) /\ InHand(g, f) => InHand(g, f)' \/ Follows(f)
    BY <1>1, <1>25, <2>2, TextFacts DEF MovePut, AtWork, FitsAt,
       FileLess, InHand, Follows, Tracked, BusyAt, BusyPlaces, Derived,
       WithText, Parsing, Leaving, Gone, Goto, TaskTypes, CacheTypes
  <2> QED
    BY <1>2, <2>1, <2>2, <2>3, <2>4, <2>5, LocalKeepsSettled
<1> QED
  BY <1>3, <1>4, <1>5, <1>6, <1>7, <1>8, <1>9, <1>10, <1>11, <1>12, <1>13,
     <1>14, <1>15, <1>16, <1>17, <1>18, <1>19, <1>20, <1>21,
     <1>22, <1>23, <1>24, <1>25

\* The steps that change a map, or ask for a lint run.
LEMMA MapStepsKeepSettled ==
  ASSUME TypeInv, TypeInv', SettledInv, NEW g \in Others, pc[g] # "idle",
         \/ SetIgnored(g) \/ SetContents(g) \/ RequestLint(g) \/ SetParseErrors(g)
         \/ SetModule(g) \/ SetLineCount(g) \/ PutFileMod(g) \/ PutFileRefs(g)
         \/ WriteFromDisk(g) \/ DeleteContents(g) \/ DeleteIgnored(g) \/ DeleteModule(g)
         \/ DeleteDiagnostics(g) \/ DeleteParseErrors(g) \/ DeleteLineCount(g) \/ Notify(g)
         \/ ClearFileDiagnostics(g) \/ MoveSet(g)
  PROVE  SettledInv'
<1>1. AtWork(g)
  BY BusyIsAtWork
<1>2. \A h \in Others \ {g} : pc[h] = "idle"
  BY BusyIsAtWork
<1>3. CASE SetIgnored(g)
  <2>1. OnlyMoves(g)
    BY <1>3 DEF SetIgnored, OnlyMoves, Goto, Finish, TypeInv
  <2>2. /\ pc[g] = "ignore"
        /\ cache'.ignored = [cache.ignored EXCEPT ![task[g].file] = task[g].text]
        /\ cache'.contents = cache.contents /\ cache'.modules = cache.modules
        /\ cache'.diags = cache.diags
        /\ cache'.errors = cache.errors /\ cache'.lines = cache.lines
        /\ store' = store /\ UNCHANGED <<ignoring, client, owed, failed>>
    BY <1>1, <1>3 DEF SetIgnored, AtWork, CacheTypes, config, outside, runs
  <2>3. pc'[g] = "idle"
    BY <1>1, <1>3, <2>2 DEF SetIgnored, AtWork, BusyAt, AllOps, Goto, Finish
  <2>4. RestsOrBusy(g)'
    BY <1>1, <2>2, <2>3, TextFacts DEF AtWork, FitsAt, FileLess, BusyAt,
       BusyPlaces, Derived, WithText, Parsing, Leaving, Gone, TaskTypes,
       CacheTypes, StoreTypes, RestsOrBusy
  <2>5. FollowsBut(g)'
    BY <1>1, <2>2, <2>3, TextFacts DEF AtWork, FitsAt, FileLess, BusyAt,
       BusyPlaces, Derived, WithText, Parsing, Leaving, Gone, TaskTypes,
       CacheTypes, StoreTypes, FollowsBut, InHand, Follows, Tracked
  <2>6. AsksInTurn(g)
    BY <1>1, <2>2, <2>3, TextFacts DEF AtWork, FitsAt, FileLess, BusyAt,
       BusyPlaces, Derived, WithText, Parsing, Leaving, Gone, TaskTypes,
       CacheTypes, StoreTypes, AsksInTurn, WillRequest, QuietForTracked,
       Tracked, HasContents
  <2> QED
    BY <1>2, <2>1, <2>4, <2>5, <2>6, AloneKeepsSettled
<1>4. CASE SetContents(g)
  <2>1. OnlyMoves(g)
    BY <1>4 DEF SetContents, OnlyMoves, CacheStep, Goto, TypeInv
  <2>2. /\ pc[g] = "set" /\ cache'.contents = [cache.contents EXCEPT ![task[g].file] = task[g].text]
        /\ cache'.ignored = cache.ignored /\ cache'.modules = cache.modules
        /\ cache'.diags = cache.diags
        /\ cache'.errors = cache.errors /\ cache'.lines = cache.lines
        /\ store' = store /\ UNCHANGED <<ignoring, client, owed, failed>>
    BY <1>1, <1>4 DEF SetContents, AtWork, CacheTypes, CacheStep, config,
       outside, runs
  <2>3. task' = task /\ pc'[g] = (IF task[g].op = "template" THEN "tmplFix" ELSE "parse")
    BY <1>1, <1>4, <2>2 DEF SetContents, AtWork, BusyAt, AllOps, CacheStep,
       Goto
  <2>4. RestsOrBusy(g)'
    BY <1>1, <2>2, <2>3, TextFacts DEF AtWork, FitsAt, FileLess, BusyAt,
       BusyPlaces, Derived, WithText, Parsing, Leaving, Gone, TaskTypes,
       CacheTypes, StoreTypes, RestsOrBusy
  <2>5. FollowsBut(g)'
    BY <1>1, <2>2, <2>3, TextFacts DEF AtWork, FitsAt, FileLess, BusyAt,
       BusyPlaces, Derived, WithText, Parsing, Leaving, Gone, TaskTypes,
       CacheTypes, StoreTypes, FollowsBut, InHand, Follows, Tracked
  <2>6. AsksInTurn(g)
    BY <1>1, <2>2, <2>3, TextFacts DEF AtWork, FitsAt, FileLess, BusyAt,
       BusyPlaces, Derived, WithText, Parsing, Leaving, Gone, TaskTypes,
       CacheTypes, StoreTypes, AsksInTurn, WillRequest, QuietForTracked,
       Tracked, HasContents
  <2> QED
    BY <1>2, <2>1, <2>4, <2>5, <2>6, AloneKeepsSettled
<1>5. CASE RequestLint(g)
  <2>1. OnlyMoves(g)
    BY <1>5 DEF RequestLint, OnlyMoves, Goto, Finish, TypeInv
  <2>2. /\ pc[g] = "request" /\ cache' = cache /\ store' = store /\ owed'
        /\ UNCHANGED <<ignoring, client, failed>>
    BY <1>5 DEF RequestLint, config, outside
  <2>3. \/ pc'[g] = "idle"
        \/ pc'[g] \in {"template", "tmplDone"} /\ task'[g] = task[g]
    BY <1>1, <1>5, <2>2 DEF RequestLint, AtWork, BusyAt, AllOps, Goto, Finish
  <2>4. RestsOrBusy(g)'
    BY <1>1, <2>2, <2>3, TextFacts DEF AtWork, FitsAt, FileLess, BusyAt,
       BusyPlaces, Derived, WithText, Parsing, Leaving, Gone, TaskTypes,
       CacheTypes, StoreTypes, RestsOrBusy
  <2>5. FollowsBut(g)'
    BY <1>1, <2>2, <2>3, TextFacts DEF AtWork, FitsAt, FileLess, BusyAt,
       BusyPlaces, Derived, WithText, Parsing, Leaving, Gone, TaskTypes,
       CacheTypes, StoreTypes, FollowsBut, InHand, Follows, Tracked
  <2>6. AsksInTurn(g)
    BY <1>1, <2>2, <2>3, TextFacts DEF AtWork, FitsAt, FileLess, BusyAt,
       BusyPlaces, Derived, WithText, Parsing, Leaving, Gone, TaskTypes,
       CacheTypes, StoreTypes, AsksInTurn, WillRequest, QuietForTracked,
       Tracked, HasContents
  <2> QED
    BY <1>2, <2>1, <2>4, <2>5, <2>6, AloneKeepsSettled
<1>6. CASE SetParseErrors(g)
  <2>1. OnlyMoves(g)
    BY <1>6 DEF SetParseErrors, OnlyMoves, CacheStep, Goto, TypeInv
  <2>2. /\ pc[g] = "errors"
        /\ cache'.errors = [cache.errors EXCEPT ![task[g].file] =
                             IF task[g].text \in Good THEN Clean ELSE task[g].text]
        /\ cache'.contents = cache.contents /\ cache'.ignored = cache.ignored
        /\ cache'.modules = cache.modules
        /\ cache'.diags = cache.diags /\ cache'.lines = cache.lines
        /\ store' = store /\ UNCHANGED <<ignoring, client, owed, failed>>
    BY <1>1, <1>6 DEF SetParseErrors, AtWork, CacheTypes, CacheStep, config,
       outside, runs
  <2>3. task' = task /\ pc'[g] = (IF task[g].text \in Good THEN "module" ELSE "parsed")
    BY <1>1, <1>6, <2>2 DEF SetParseErrors, AtWork, BusyAt, AllOps, CacheStep,
       Goto
  <2>4. RestsOrBusy(g)'
    BY <1>1, <2>2, <2>3, TextFacts DEF AtWork, FitsAt, FileLess, BusyAt,
       BusyPlaces, Derived, WithText, Parsing, Leaving, Gone, TaskTypes,
       CacheTypes, StoreTypes, RestsOrBusy
  <2>5. FollowsBut(g)'
    BY <1>1, <2>2, <2>3, TextFacts DEF AtWork, FitsAt, FileLess, BusyAt,
       BusyPlaces, Derived, WithText, Parsing, Leaving, Gone, TaskTypes,
       CacheTypes, StoreTypes, FollowsBut, InHand, Follows, Tracked
  <2>6. AsksInTurn(g)
    BY <1>1, <2>2, <2>3, TextFacts DEF AtWork, FitsAt, FileLess, BusyAt,
       BusyPlaces, Derived, WithText, Parsing, Leaving, Gone, TaskTypes,
       CacheTypes, StoreTypes, AsksInTurn, WillRequest, QuietForTracked,
       Tracked, HasContents
  <2> QED
    BY <1>2, <2>1, <2>4, <2>5, <2>6, AloneKeepsSettled
<1>7. CASE SetModule(g)
  <2>1. OnlyMoves(g)
    BY <1>7 DEF SetModule, OnlyMoves, CacheStep, Goto, TypeInv
  <2>2. /\ pc[g] = "module"
        /\ cache'.modules = [cache.modules EXCEPT ![task[g].file] = task[g].text]
        /\ cache'.contents = cache.contents /\ cache'.ignored = cache.ignored
        /\ cache'.diags = cache.diags
        /\ cache'.errors = cache.errors /\ cache'.lines = cache.lines
        /\ store' = store /\ UNCHANGED <<ignoring, client, owed, failed>>
    BY <1>1, <1>7 DEF SetModule, AtWork, CacheTypes, CacheStep, config,
       outside, runs
  <2>3. task' = task /\ pc'[g] = "lines"
    BY <1>1, <1>7, <2>2 DEF SetModule, AtWork, BusyAt, AllOps, CacheStep, Goto
  <2>4. RestsOrBusy(g)'
    BY <1>1, <2>2, <2>3, TextFacts DEF AtWork, FitsAt, FileLess, BusyAt,
       BusyPlaces, Derived, WithText, Parsing, Leaving, Gone, TaskTypes,
       CacheTypes, StoreTypes, RestsOrBusy
  <2>5. FollowsBut(g)'
    BY <1>1, <2>2, <2>3, TextFacts DEF AtWork, FitsAt, FileLess, BusyAt,
       BusyPlaces, Derived, WithText, Parsing, Leaving, Gone, TaskTypes,
       CacheTypes, StoreTypes, FollowsBut, InHand, Follows, Tracked
  <2>6. AsksInTurn(g)
    BY <1>1, <2>2, <2>3, TextFacts DEF AtWork, FitsAt, FileLess, BusyAt,
       BusyPlaces, Derived, WithText, Parsing, Leaving, Gone, TaskTypes,
       CacheTypes, StoreTypes, AsksInTurn, WillRequest, QuietForTracked,
       Tracked, HasContents
  <2> QED
    BY <1>2, <2>1, <2>4, <2>5, <2>6, AloneKeepsSettled
<1>8. CASE SetLineCount(g)
  <2>1. OnlyMoves(g)
    BY <1>8 DEF SetLineCount, OnlyMoves, CacheStep, Goto, TypeInv
  <2>2. /\ pc[g] = "lines" /\ cache'.lines = [cache.lines EXCEPT ![task[g].file] = task[g].text]
        /\ cache'.contents = cache.contents /\ cache'.ignored = cache.ignored
        /\ cache'.modules = cache.modules
        /\ cache'.diags = cache.diags /\ cache'.errors = cache.errors
        /\ store' = store /\ UNCHANGED <<ignoring, client, owed, failed>>
    BY <1>1, <1>8 DEF SetLineCount, AtWork, CacheTypes, CacheStep, config,
       outside, runs
  <2>3. task' = task /\ pc'[g] = "putMod"
    BY <1>1, <1>8, <2>2 DEF SetLineCount, AtWork, BusyAt, AllOps, CacheStep,
       Goto
  <2>4. RestsOrBusy(g)'
    BY <1>1, <2>2, <2>3, TextFacts DEF AtWork, FitsAt, FileLess, BusyAt,
       BusyPlaces, Derived, WithText, Parsing, Leaving, Gone, TaskTypes,
       CacheTypes, StoreTypes, RestsOrBusy
  <2>5. FollowsBut(g)'
    BY <1>1, <2>2, <2>3, TextFacts DEF AtWork, FitsAt, FileLess, BusyAt,
       BusyPlaces, Derived, WithText, Parsing, Leaving, Gone, TaskTypes,
       CacheTypes, StoreTypes, FollowsBut, InHand, Follows, Tracked
  <2>6. AsksInTurn(g)
    BY <1>1, <2>2, <2>3, TextFacts DEF AtWork, FitsAt, FileLess, BusyAt,
       BusyPlaces, Derived, WithText, Parsing, Leaving, Gone, TaskTypes,
       CacheTypes, StoreTypes, AsksInTurn, WillRequest, QuietForTracked,
       Tracked, HasContents
  <2> QED
    BY <1>2, <2>1, <2>4, <2>5, <2>6, AloneKeepsSettled
<1>9. CASE PutFileMod(g)
  <2>1. OnlyMoves(g)
    BY <1>9 DEF PutFileMod, OnlyMoves, Goto, TypeInv
  <2>2. /\ pc[g] = "putMod" /\ cache' = cache
        /\ store'.parsed = [store.parsed EXCEPT ![task[g].file] = task[g].text]
        /\ store'.refs = store.refs
        /\ UNCHANGED <<ignoring, client, owed, failed>>
    BY <1>1, <1>9 DEF PutFileMod, AtWork, StoreTypes, config, outside, runs
  <2>3. task' = task /\ pc'[g] = "putRefs"
    BY <1>1, <1>9, <2>2 DEF PutFileMod, AtWork, BusyAt, AllOps, Goto
  <2>4. RestsOrBusy(g)'
    BY <1>1, <2>2, <2>3, TextFacts DEF AtWork, FitsAt, FileLess, BusyAt,
       BusyPlaces, Derived, WithText, Parsing, Leaving, Gone, TaskTypes,
       CacheTypes, StoreTypes, RestsOrBusy
  <2>5. FollowsBut(g)'
    BY <1>1, <2>2, <2>3, TextFacts DEF AtWork, FitsAt, FileLess, BusyAt,
       BusyPlaces, Derived, WithText, Parsing, Leaving, Gone, TaskTypes,
       CacheTypes, StoreTypes, FollowsBut, InHand, Follows, Tracked
  <2>6. AsksInTurn(g)
    BY <1>1, <2>2, <2>3, TextFacts DEF AtWork, FitsAt, FileLess, BusyAt,
       BusyPlaces, Derived, WithText, Parsing, Leaving, Gone, TaskTypes,
       CacheTypes, StoreTypes, AsksInTurn, WillRequest, QuietForTracked,
       Tracked, HasContents
  <2> QED
    BY <1>2, <2>1, <2>4, <2>5, <2>6, AloneKeepsSettled
<1>10. CASE PutFileRefs(g)
  <2>1. OnlyMoves(g)
    BY <1>10 DEF PutFileRefs, OnlyMoves, Goto, TypeInv
  <2>2. /\ pc[g] = "putRefs" /\ cache' = cache
        /\ store'.refs = [store.refs EXCEPT ![task[g].file] = task[g].text]
        /\ store'.parsed = store.parsed
        /\ UNCHANGED <<ignoring, client, owed, failed>>
    BY <1>1, <1>10 DEF PutFileRefs, AtWork, StoreTypes, config, outside, runs
  <2>3. task' = task /\ pc'[g] = "parsed"
    BY <1>1, <1>10, <2>2 DEF PutFileRefs, AtWork, BusyAt, AllOps, Goto
  <2>4. RestsOrBusy(g)'
    BY <1>1, <2>2, <2>3, TextFacts DEF AtWork, FitsAt, FileLess, BusyAt,
       BusyPlaces, Derived, WithText, Parsing, Leaving, Gone, TaskTypes,
       CacheTypes, StoreTypes, RestsOrBusy
  <2>5. FollowsBut(g)'
    BY <1>1, <2>2, <2>3, TextFacts DEF AtWork, FitsAt, FileLess, BusyAt,
       BusyPlaces, Derived, WithText, Parsing, Leaving, Gone, TaskTypes,
       CacheTypes, StoreTypes, FollowsBut, InHand, Follows, Tracked
  <2>6. AsksInTurn(g)
    BY <1>1, <2>2, <2>3, TextFacts DEF AtWork, FitsAt, FileLess, BusyAt,
       BusyPlaces, Derived, WithText, Parsing, Leaving, Gone, TaskTypes,
       CacheTypes, StoreTypes, AsksInTurn, WillRequest, QuietForTracked,
       Tracked, HasContents
  <2> QED
    BY <1>2, <2>1, <2>4, <2>5, <2>6, AloneKeepsSettled
<1>11. CASE WriteFromDisk(g)
  <2>1. OnlyMoves(g)
    BY <1>11 DEF WriteFromDisk, OnlyMoves, CacheStep, Goto, TypeInv,
       AfterUpdate, Target
  <2>2. /\ pc[g] = "write" /\ cache'.contents = [cache.contents EXCEPT ![Target(g)] = task[g].text]
        /\ cache'.ignored = cache.ignored /\ cache'.modules = cache.modules
        /\ cache'.diags = cache.diags
        /\ cache'.errors = cache.errors /\ cache'.lines = cache.lines
        /\ store' = store /\ UNCHANGED <<ignoring, client, owed, failed>>
    BY <1>1, <1>11 DEF WriteFromDisk, AtWork, CacheTypes, CacheStep, config,
       outside, runs
  <2>3. task' = task /\ pc'[g] = (IF task[g].op = "rename" THEN "delContents" ELSE "parse")
    BY <1>1, <1>11, <2>2 DEF WriteFromDisk, AtWork, BusyAt, AllOps, CacheStep,
       Goto, AfterUpdate, Target
  <2>4. RestsOrBusy(g)'
    BY <1>1, <2>2, <2>3, TextFacts DEF AtWork, FitsAt, FileLess, BusyAt,
       BusyPlaces, Derived, WithText, Parsing, Leaving, Gone, TaskTypes,
       CacheTypes, StoreTypes, RestsOrBusy, Target
  <2>5. FollowsBut(g)'
    BY <1>1, <2>2, <2>3, TextFacts DEF AtWork, FitsAt, FileLess, BusyAt,
       BusyPlaces, Derived, WithText, Parsing, Leaving, Gone, TaskTypes,
       CacheTypes, StoreTypes, FollowsBut, InHand, Follows, Tracked, Target
  <2>6. AsksInTurn(g)
    BY <1>1, <2>2, <2>3, TextFacts DEF AtWork, FitsAt, FileLess, BusyAt,
       BusyPlaces, Derived, WithText, Parsing, Leaving, Gone, TaskTypes,
       CacheTypes, StoreTypes, AsksInTurn, WillRequest, QuietForTracked,
       Tracked, HasContents, Target
  <2> QED
    BY <1>2, <2>1, <2>4, <2>5, <2>6, AloneKeepsSettled
<1>12. CASE DeleteContents(g)
  <2>1. OnlyMoves(g)
    BY <1>12 DEF DeleteContents, OnlyMoves, CacheStep, Goto, TypeInv
  <2>2. /\ pc[g] = "delContents"
        /\ cache'.contents = [cache.contents EXCEPT ![task[g].file] = Nothing]
        /\ cache'.ignored = cache.ignored /\ cache'.modules = cache.modules
        /\ cache'.diags = cache.diags
        /\ cache'.errors = cache.errors /\ cache'.lines = cache.lines
        /\ store' = store /\ UNCHANGED <<ignoring, client, owed, failed>>
    BY <1>1, <1>12 DEF DeleteContents, AtWork, CacheTypes, CacheStep, config,
       outside, runs
  <2>3. task' = task /\ pc'[g] = "delIgnored"
    BY <1>1, <1>12, <2>2 DEF DeleteContents, AtWork, BusyAt, AllOps,
       CacheStep, Goto
  <2>4. RestsOrBusy(g)'
    BY <1>1, <2>2, <2>3, TextFacts DEF AtWork, FitsAt, FileLess, BusyAt,
       BusyPlaces, Derived, WithText, Parsing, Leaving, Gone, TaskTypes,
       CacheTypes, StoreTypes, RestsOrBusy
  <2>5. FollowsBut(g)'
    BY <1>1, <2>2, <2>3, TextFacts DEF AtWork, FitsAt, FileLess, BusyAt,
       BusyPlaces, Derived, WithText, Parsing, Leaving, Gone, TaskTypes,
       CacheTypes, StoreTypes, FollowsBut, InHand, Follows, Tracked
  <2>6. AsksInTurn(g)
    BY <1>1, <2>2, <2>3, TextFacts DEF AtWork, FitsAt, FileLess, BusyAt,
       BusyPlaces, Derived, WithText, Parsing, Leaving, Gone, TaskTypes,
       CacheTypes, StoreTypes, AsksInTurn, WillRequest, QuietForTracked,
       Tracked, HasContents
  <2> QED
    BY <1>2, <2>1, <2>4, <2>5, <2>6, AloneKeepsSettled
<1>13. CASE DeleteIgnored(g)
  <2>1. OnlyMoves(g)
    BY <1>13 DEF DeleteIgnored, OnlyMoves, CacheStep, Goto, TypeInv
  <2>2. /\ pc[g] = "delIgnored" /\ cache'.ignored = [cache.ignored EXCEPT ![task[g].file] = Nothing]
        /\ cache'.contents = cache.contents /\ cache'.modules = cache.modules
        /\ cache'.diags = cache.diags
        /\ cache'.errors = cache.errors /\ cache'.lines = cache.lines
        /\ store' = store /\ UNCHANGED <<ignoring, client, owed, failed>>
    BY <1>1, <1>13 DEF DeleteIgnored, AtWork, CacheTypes, CacheStep, config,
       outside, runs
  <2>3. task' = task /\ pc'[g] = "delModule"
    BY <1>1, <1>13, <2>2 DEF DeleteIgnored, AtWork, BusyAt, AllOps, CacheStep,
       Goto
  <2>4. RestsOrBusy(g)'
    BY <1>1, <2>2, <2>3, TextFacts DEF AtWork, FitsAt, FileLess, BusyAt,
       BusyPlaces, Derived, WithText, Parsing, Leaving, Gone, TaskTypes,
       CacheTypes, StoreTypes, RestsOrBusy
  <2>5. FollowsBut(g)'
    BY <1>1, <2>2, <2>3, TextFacts DEF AtWork, FitsAt, FileLess, BusyAt,
       BusyPlaces, Derived, WithText, Parsing, Leaving, Gone, TaskTypes,
       CacheTypes, StoreTypes, FollowsBut, InHand, Follows, Tracked
  <2>6. AsksInTurn(g)
    BY <1>1, <2>2, <2>3, TextFacts DEF AtWork, FitsAt, FileLess, BusyAt,
       BusyPlaces, Derived, WithText, Parsing, Leaving, Gone, TaskTypes,
       CacheTypes, StoreTypes, AsksInTurn, WillRequest, QuietForTracked,
       Tracked, HasContents
  <2> QED
    BY <1>2, <2>1, <2>4, <2>5, <2>6, AloneKeepsSettled
<1>14. CASE DeleteModule(g)
  <2>1. OnlyMoves(g)
    BY <1>14 DEF DeleteModule, OnlyMoves, CacheStep, Goto, TypeInv
  <2>2. /\ pc[g] = "delModule" /\ cache'.modules = [cache.modules EXCEPT ![task[g].file] = Nothing]
        /\ cache'.contents = cache.contents /\ cache'.ignored = cache.ignored
        /\ cache'.diags = cache.diags
        /\ cache'.errors = cache.errors /\ cache'.lines = cache.lines
        /\ store' = store /\ UNCHANGED <<ignoring, client, owed, failed>>
    BY <1>1, <1>14 DEF DeleteModule, AtWork, CacheTypes, CacheStep, config,
       outside, runs
  <2>3. task' = task /\ pc'[g] = "delDiags"
    BY <1>1, <1>14, <2>2 DEF DeleteModule, AtWork, BusyAt, AllOps, CacheStep,
       Goto
  <2>4. RestsOrBusy(g)'
    BY <1>1, <2>2, <2>3, TextFacts DEF AtWork, FitsAt, FileLess, BusyAt,
       BusyPlaces, Derived, WithText, Parsing, Leaving, Gone, TaskTypes,
       CacheTypes, StoreTypes, RestsOrBusy
  <2>5. FollowsBut(g)'
    BY <1>1, <2>2, <2>3, TextFacts DEF AtWork, FitsAt, FileLess, BusyAt,
       BusyPlaces, Derived, WithText, Parsing, Leaving, Gone, TaskTypes,
       CacheTypes, StoreTypes, FollowsBut, InHand, Follows, Tracked
  <2>6. AsksInTurn(g)
    BY <1>1, <2>2, <2>3, TextFacts DEF AtWork, FitsAt, FileLess, BusyAt,
       BusyPlaces, Derived, WithText, Parsing, Leaving, Gone, TaskTypes,
       CacheTypes, StoreTypes, AsksInTurn, WillRequest, QuietForTracked,
       Tracked, HasContents
  <2> QED
    BY <1>2, <2>1, <2>4, <2>5, <2>6, AloneKeepsSettled
<1>15. CASE DeleteDiagnostics(g)
  <2>1. OnlyMoves(g)
    BY <1>15 DEF DeleteDiagnostics, OnlyMoves, CacheStep, Goto, TypeInv
  <2>2. /\ pc[g] = "delDiags" /\ cache'.diags = [cache.diags EXCEPT ![task[g].file] = Nothing]
        /\ cache'.contents = cache.contents /\ cache'.ignored = cache.ignored
        /\ cache'.modules = cache.modules
        /\ cache'.errors = cache.errors /\ cache'.lines = cache.lines
        /\ store' = store /\ UNCHANGED <<ignoring, client, owed, failed>>
    BY <1>1, <1>15 DEF DeleteDiagnostics, AtWork, CacheTypes, CacheStep,
       config, outside, runs
  <2>3. task' = task /\ pc'[g] = "delErrors"
    BY <1>1, <1>15, <2>2 DEF DeleteDiagnostics, AtWork, BusyAt, AllOps,
       CacheStep, Goto
  <2>4. RestsOrBusy(g)'
    BY <1>1, <2>2, <2>3, TextFacts DEF AtWork, FitsAt, FileLess, BusyAt,
       BusyPlaces, Derived, WithText, Parsing, Leaving, Gone, TaskTypes,
       CacheTypes, StoreTypes, RestsOrBusy
  <2>5. FollowsBut(g)'
    BY <1>1, <2>2, <2>3, TextFacts DEF AtWork, FitsAt, FileLess, BusyAt,
       BusyPlaces, Derived, WithText, Parsing, Leaving, Gone, TaskTypes,
       CacheTypes, StoreTypes, FollowsBut, InHand, Follows, Tracked
  <2>6. AsksInTurn(g)
    BY <1>1, <2>2, <2>3, TextFacts DEF AtWork, FitsAt, FileLess, BusyAt,
       BusyPlaces, Derived, WithText, Parsing, Leaving, Gone, TaskTypes,
       CacheTypes, StoreTypes, AsksInTurn, WillRequest, QuietForTracked,
       Tracked, HasContents
  <2> QED
    BY <1>2, <2>1, <2>4, <2>5, <2>6, AloneKeepsSettled
<1>16. CASE DeleteParseErrors(g)
  <2>1. OnlyMoves(g)
    BY <1>16 DEF DeleteParseErrors, OnlyMoves, CacheStep, Goto, TypeInv
  <2>2. /\ pc[g] = "delErrors" /\ cache'.errors = [cache.errors EXCEPT ![task[g].file] = Nothing]
        /\ cache'.contents = cache.contents /\ cache'.ignored = cache.ignored
        /\ cache'.modules = cache.modules
        /\ cache'.diags = cache.diags /\ cache'.lines = cache.lines
        /\ store' = store /\ UNCHANGED <<ignoring, client, owed, failed>>
    BY <1>1, <1>16 DEF DeleteParseErrors, AtWork, CacheTypes, CacheStep,
       config, outside, runs
  <2>3. task' = task /\ pc'[g] = "delLines"
    BY <1>1, <1>16, <2>2 DEF DeleteParseErrors, AtWork, BusyAt, AllOps,
       CacheStep, Goto
  <2>4. RestsOrBusy(g)'
    BY <1>1, <2>2, <2>3, TextFacts DEF AtWork, FitsAt, FileLess, BusyAt,
       BusyPlaces, Derived, WithText, Parsing, Leaving, Gone, TaskTypes,
       CacheTypes, StoreTypes, RestsOrBusy
  <2>5. FollowsBut(g)'
    BY <1>1, <2>2, <2>3, TextFacts DEF AtWork, FitsAt, FileLess, BusyAt,
       BusyPlaces, Derived, WithText, Parsing, Leaving, Gone, TaskTypes,
       CacheTypes, StoreTypes, FollowsBut, InHand, Follows, Tracked
  <2>6. AsksInTurn(g)
    BY <1>1, <2>2, <2>3, TextFacts DEF AtWork, FitsAt, FileLess, BusyAt,
       BusyPlaces, Derived, WithText, Parsing, Leaving, Gone, TaskTypes,
       CacheTypes, StoreTypes, AsksInTurn, WillRequest, QuietForTracked,
       Tracked, HasContents
  <2> QED
    BY <1>2, <2>1, <2>4, <2>5, <2>6, AloneKeepsSettled
<1>17. CASE DeleteLineCount(g)
  <2>1. OnlyMoves(g)
    BY <1>17 DEF DeleteLineCount, OnlyMoves, Goto, Finish, TypeInv
  <2>2. /\ pc[g] = "delLines" /\ cache'.lines = [cache.lines EXCEPT ![task[g].file] = Nothing]
        /\ cache'.contents = cache.contents /\ cache'.ignored = cache.ignored
        /\ cache'.modules = cache.modules
        /\ cache'.diags = cache.diags /\ cache'.errors = cache.errors
        /\ store' = store /\ UNCHANGED <<ignoring, client, owed, failed>>
    BY <1>1, <1>17 DEF DeleteLineCount, AtWork, CacheTypes, config, outside,
       runs
  <2>3. \/ task[g].op = "close" /\ pc'[g] = "idle" /\ task'[g] = NoTask
        \/ pc'[g] = "sendErrors" /\ task' = task
        \/ task[g].op = "template" /\ pc'[g] = "tmplPut" /\ task' = task
        \/ task[g].op = "moved" /\ pc'[g] = "tmplEdit" /\ task' = task
    BY <1>1, <1>17, <2>2 DEF DeleteLineCount, AtWork, BusyAt, AllOps, Goto,
       Finish
  <2>4. RestsOrBusy(g)'
    BY <1>1, <2>2, <2>3, TextFacts DEF AtWork, FitsAt, FileLess, BusyAt,
       BusyPlaces, Derived, WithText, Parsing, Leaving, Gone, TaskTypes,
       CacheTypes, StoreTypes, RestsOrBusy
  <2>5. FollowsBut(g)'
    BY <1>1, <2>2, <2>3, TextFacts DEF AtWork, FitsAt, FileLess, BusyAt,
       BusyPlaces, Derived, WithText, Parsing, Leaving, Gone, TaskTypes,
       CacheTypes, StoreTypes, FollowsBut, InHand, Follows, Tracked
  <2>6. AsksInTurn(g)
    BY <1>1, <2>2, <2>3, TextFacts DEF AtWork, FitsAt, FileLess, BusyAt,
       BusyPlaces, Derived, WithText, Parsing, Leaving, Gone, TaskTypes,
       CacheTypes, StoreTypes, AsksInTurn, WillRequest, QuietForTracked,
       Tracked, HasContents
  <2> QED
    BY <1>2, <2>1, <2>4, <2>5, <2>6, AloneKeepsSettled
<1>18. CASE Notify(g)
  <2>1. OnlyMoves(g)
    BY <1>18 DEF Notify, OnlyMoves, Goto, Finish, TypeInv
  <2>2. /\ pc[g] = "notify" /\ cache' = cache /\ store' = store
        /\ client' = [client EXCEPT ![task[g].file] = task[g].diag]
        /\ UNCHANGED <<ignoring, owed, failed>>
    BY <1>18 DEF Notify, config, runs
  <2>3. \/ pc'[g] = "idle" /\ task[g].op # "rename" /\ task'[g] = NoTask
        \/ task[g].op = "rename" /\ pc'[g] = "target" /\ task' = task
    BY <1>1, <1>18, <2>2 DEF Notify, AtWork, BusyAt, AllOps, Goto, Finish
  <2>4. RestsOrBusy(g)'
    BY <1>1, <2>2, <2>3, TextFacts DEF AtWork, FitsAt, FileLess, BusyAt,
       BusyPlaces, Derived, WithText, Parsing, Leaving, Gone, TaskTypes,
       CacheTypes, StoreTypes, RestsOrBusy
  <2>5. FollowsBut(g)'
    BY <1>1, <2>2, <2>3, TextFacts DEF AtWork, FitsAt, FileLess, BusyAt,
       BusyPlaces, Derived, WithText, Parsing, Leaving, Gone, TaskTypes,
       CacheTypes, StoreTypes, FollowsBut, InHand, Follows, Tracked
  <2>6. AsksInTurn(g)
    BY <1>1, <2>2, <2>3, TextFacts DEF AtWork, FitsAt, FileLess, BusyAt,
       BusyPlaces, Derived, WithText, Parsing, Leaving, Gone, TaskTypes,
       CacheTypes, StoreTypes, AsksInTurn, WillRequest, QuietForTracked,
       Tracked, HasContents
  <2> QED
    BY <1>2, <2>1, <2>4, <2>5, <2>6, AloneKeepsSettled
<1>19. CASE ClearFileDiagnostics(g)
  <2>1. OnlyMoves(g)
    BY <1>19 DEF ClearFileDiagnostics, OnlyMoves, CacheStep, Goto, TypeInv,
       EveryFile
  <2>2. /\ pc[g] = "clear" /\ cache'.diags = EveryFile(Nothing)
        /\ cache'.contents = cache.contents /\ cache'.ignored = cache.ignored
        /\ cache'.modules = cache.modules
        /\ cache'.errors = cache.errors /\ cache'.lines = cache.lines
        /\ store' = store /\ UNCHANGED <<ignoring, client, owed, failed>>
    BY <1>1, <1>19 DEF ClearFileDiagnostics, AtWork, CacheTypes, CacheStep,
       config, outside, runs
  <2>3. task' = task /\ pc'[g] = "set"
    BY <1>1, <1>19, <2>2 DEF ClearFileDiagnostics, AtWork, BusyAt, AllOps,
       CacheStep, Goto, EveryFile
  <2>4. RestsOrBusy(g)'
    BY <1>1, <2>2, <2>3, TextFacts DEF AtWork, FitsAt, FileLess, BusyAt,
       BusyPlaces, Derived, WithText, Parsing, Leaving, Gone, TaskTypes,
       CacheTypes, StoreTypes, RestsOrBusy, EveryFile
  <2>5. FollowsBut(g)'
    BY <1>1, <2>2, <2>3, TextFacts DEF AtWork, FitsAt, FileLess, BusyAt,
       BusyPlaces, Derived, WithText, Parsing, Leaving, Gone, TaskTypes,
       CacheTypes, StoreTypes, FollowsBut, InHand, Follows, Tracked, EveryFile
  <2>6. AsksInTurn(g)
    BY <1>1, <2>2, <2>3, TextFacts DEF AtWork, FitsAt, FileLess, BusyAt,
       BusyPlaces, Derived, WithText, Parsing, Leaving, Gone, TaskTypes,
       CacheTypes, StoreTypes, AsksInTurn, WillRequest, QuietForTracked,
       Tracked, HasContents, EveryFile
  <2> QED
    BY <1>2, <2>1, <2>4, <2>5, <2>6, AloneKeepsSettled
<1>20. CASE MoveSet(g)
  <2>1. OnlyMoves(g)
    BY <1>20 DEF MoveSet, OnlyMoves, CacheStep, Goto, TypeInv
  <2>2. /\ pc[g] = "tmplSet" /\ task[g].dest \in Files /\ task[g].text = Template
        /\ cache'.contents = [cache.contents EXCEPT ![task[g].dest] = Template]
        /\ cache'.ignored = cache.ignored /\ cache'.modules = cache.modules
        /\ cache'.diags = cache.diags
        /\ cache'.errors = cache.errors /\ cache'.lines = cache.lines
        /\ store' = store /\ UNCHANGED <<ignoring, client, owed, failed>>
    BY <1>1, <1>20 DEF MoveSet, AtWork, BusyAt, FitsAt, CacheTypes, CacheStep, config,
       outside, runs
  <2>3. task' = task /\ pc'[g] = "delContents"
    BY <1>1, <1>20 DEF MoveSet, AtWork, CacheStep, Goto
  <2>4. RestsOrBusy(g)'
    BY <1>1, <2>2, <2>3, TextFacts DEF AtWork, FitsAt, FileLess, BusyAt,
       BusyPlaces, Derived, WithText, Parsing, Leaving, Gone, TaskTypes,
       CacheTypes, StoreTypes, RestsOrBusy
  <2>5. FollowsBut(g)'
    BY <1>1, <2>2, <2>3, TextFacts DEF AtWork, FitsAt, FileLess, BusyAt,
       BusyPlaces, Derived, WithText, Parsing, Leaving, Gone, TaskTypes,
       CacheTypes, StoreTypes, FollowsBut, InHand, Follows, Tracked
  <2>6. AsksInTurn(g)
    BY <1>1, <2>2, <2>3, TextFacts DEF AtWork, FitsAt, FileLess, BusyAt,
       BusyPlaces, Derived, WithText, Parsing, Leaving, Gone, TaskTypes,
       CacheTypes, StoreTypes, AsksInTurn, WillRequest, QuietForTracked,
       Tracked, HasContents
  <2> QED
    BY <1>2, <2>1, <2>4, <2>5, <2>6, AloneKeepsSettled
<1> QED
  BY <1>3, <1>4, <1>5, <1>6, <1>7, <1>8, <1>9, <1>10, <1>11, <1>12, <1>13,
     <1>14, <1>15, <1>16, <1>17, <1>18, <1>19, <1>20

-----------------------------------------------------------------------------
(* The lint worker, when operations come one at a time.                     *)

\* What every step of it leaves alone.
LintsOnly ==
  /\ \A h \in Goroutines \ {LintWorker} : pc'[h] = pc[h] /\ task'[h] = task[h]
  /\ ignoring' = ignoring /\ owed' = owed /\ store' = store
  /\ cache'.contents = cache.contents /\ cache'.modules = cache.modules
  /\ cache'.errors = cache.errors /\ cache'.lines = cache.lines

\* What a step of the lint worker has to satisfy to keep the invariant.
LEMMA LintsOnlyKeeps ==
  ASSUME TypeInv, SettledInv, LintsOnly, LinterAt', LintIsRight /\ ~Requested => LintIsRight'
  PROVE  SettledInv'
<1>1. \A h \in Others : pc'[h] = pc[h] /\ task'[h] = task[h]
  BY DEF Others, LintsOnly
<1>2. Alone'
  BY <1>1 DEF SettledInv, Alone
<1>3. Busy'
  <2>1. \A h \in Others : BusyAt(pc[h], task[h]) => BusyAt(pc[h], task[h])'
    BY <1>1 DEF LintsOnly, BusyAt, Derived
  <2> QED
    BY <1>1, <2>1 DEF SettledInv, Busy, RestsOrBusy
<1>4. AllFollow'
  <2>1. \A h \in Others : \A f \in Files : InHand(h, f) => InHand(h, f)'
    BY <1>1 DEF InHand
  <2>2. \A f \in Files : (Tracked(f)' => Tracked(f)) /\ (Follows(f) => Follows(f)')
    BY DEF LintsOnly, Tracked, Follows
  <2> QED
    BY <2>1, <2>2 DEF SettledInv, AllFollow
<1>5. Requested => Requested'
  <2>1. \A h \in Others : WillRequest(h) => WillRequest(h)'
    BY <1>1 DEF LintsOnly, WillRequest, HasContents
  <2> QED
    BY <2>1 DEF Requested, LintsOnly
<1> QED
  BY <1>2, <1>3, <1>4, <1>5 DEF SettledInv

\* A tracked file has a module or parse errors, unless a request is to come.
LEMMA TrackedIsParsed ==
  ASSUME TypeInv, SettledInv, ~Requested, NEW f \in Files, Tracked(f)
  PROVE  Follows(f) /\ (cache.modules[f] # Nothing \/ cache.errors[f] \in Bad)
<1>1. \A h \in Others : ~InHand(h, f)
  <2> SUFFICES ASSUME NEW h \in Others, InHand(h, f) PROVE WillRequest(h)
    BY DEF Requested
  <2> QED
    BY DEF InHand, WillRequest, Tracked, Parsing, HasContents
<1>2. Follows(f)
  BY <1>1 DEF SettledInv, AllFollow
<1>3. cache.contents[f] \in Good \union Bad
  BY DEF Tracked, TypeInv, MapsOK, CacheTypes, MaybeText, Texts
<1>4. Nothing \notin Good
  BY TextFacts
<1> QED
  BY <1>2, <1>3, <1>4 DEF Follows

\* The steps of a lint run.
LEMMA LintWorkerKeepsSettled ==
  ASSUME TypeInv, TypeInv', SettledInv, Step(LintWorker)
  PROVE  SettledInv'
<1> DEFINE g == LintWorker
<1>1. /\ g \in Goroutines /\ pc[g] \in Labels /\ task[g] \in TaskTypes
      /\ g \in DOMAIN pc /\ g \in DOMAIN task
      /\ pc[g] \notin FileLess => task[g].file \in Files
      /\ pc \in [Goroutines -> Labels] /\ task \in [Goroutines -> TaskTypes]
  BY DEF Goroutines, TypeInv, FitsAt
<1>2. /\ pc[g] \in LintPlaces /\ (pc[g] # "idle" => task[g].op = "lint")
  BY DEF SettledInv, LinterAt
<1>3. cache \in CacheTypes /\ client \in [Files -> MaybeText]
  BY DEF TypeInv, MapsOK, WorldOK
<1>5. \/ Lint(g) \/ LintCheck(g) \/ SetFileDiagnostics(g) \/ LintFiles(g) \/ LintSend(g)
      \/ SendErrors(g) \/ SendDiags(g) \/ Notify(g)
  BY <1>1, <1>2, LintWorkerSteps
<1> HIDE DEF g
<1>g. g = LintWorker
  BY DEF g
<1>6. CASE Lint(g)
  <2>1. /\ cache' = cache /\ ignoring' = ignoring /\ pc[g] = "lint"
        /\ \/ failed' = TRUE /\ pc'[g] = "idle"
           \/ pc'[g] = "lintCheck" /\ task' = task
    BY <1>1, <1>6 DEF Lint, Goto, Finish, config
  <2>2. LintsOnly
    BY <1>1, <1>6, <1>g DEF Lint, LintsOnly, Goto, Finish, config
  <2>3. LinterAt'
    BY <1>2, <1>g, <2>1 DEF LinterAt, LintPlaces
  <2>4. ASSUME LintIsRight, ~Requested PROVE LintIsRight'
    <3>1. SeesTracked /\ \A f \in Files : Tracked(f) /\ cache.modules[f] # Nothing => f \in task[g].todo
      BY <1>g, <2>1, <2>4 DEF LintIsRight, LintOf
    <3>2. CASE failed' = TRUE /\ pc'[g] = "idle"
      BY <1>g, <3>2 DEF LintIsRight, LintOf
    <3>3. CASE pc'[g] = "lintCheck" /\ task' = task
      <4>1. \A f \in Files \ task[g].todo : Tracked(f) => Linted(f)
        BY <2>4, <3>1, TrackedIsParsed DEF Linted
      <4>2. SeesTracked' /\ LintedBut(task[g].todo)'
        BY <1>g, <2>1, <3>1, <3>3, <4>1 DEF SeesTracked, LintedBut, Linted,
           Tracked
      <4> QED
        BY <1>g, <3>3, <4>2 DEF LintIsRight, LintOf
    <3> QED
      BY <2>1, <3>2, <3>3
  <2> QED
    BY <2>2, <2>3, <2>4, LintsOnlyKeeps
<1>7. CASE LintCheck(g)
  <2>0. cache' = cache /\ pc[g] = "lintCheck" /\ ignoring' = ignoring
    BY <1>7 DEF LintCheck, LocalStep, config
  <2>1. LintsOnly
    BY <1>1, <1>7, <1>g DEF LintCheck, LintsOnly, LocalStep, Goto, config,
       runs
  <2>2. ASSUME LintIsRight PROVE SeesTracked /\ LintedBut(task[g].todo)
    BY <1>g, <2>0, <2>2 DEF LintIsRight, LintOf
  <2>a. CASE task[g].todo = {} /\ Goto(g, "lintFiles") /\ UNCHANGED task
    <3>1. pc'[g] = "lintFiles" /\ task' = task
      BY <1>1, <2>a DEF Goto
    <3>2. LinterAt'
      BY <1>2, <1>g, <2>0, <3>1 DEF LinterAt, LintPlaces
    <3>3. ASSUME LintIsRight PROVE LintIsRight'
      <4>1. LintedBut({})'
        BY <2>0, <2>2, <2>a, <3>3 DEF LintedBut, Linted, Tracked
      <4> QED
        BY <1>g, <3>1, <4>1 DEF LintIsRight, LintOf
    <3> QED
      BY <2>1, <3>2, <3>3, LintsOnlyKeeps
  <2>b. ASSUME NEW f \in task[g].todo,
               task' = [task EXCEPT ![g].file = f, ![g].todo = @ \ {f}],
               Goto(g, IF cache.errors[f] \in Bad THEN "lintCheck" ELSE "lintStore")
        PROVE  SettledInv'
    <3>1. /\ task'[g].file = f /\ task'[g].todo = task[g].todo \ {f}
          /\ task'[g].copy = task[g].copy /\ task'[g].op = task[g].op
          /\ f \in Files
      BY <1>1, <2>b DEF TaskTypes
    <3>2. pc'[g] = (IF cache.errors[f] \in Bad THEN "lintCheck" ELSE "lintStore")
      BY <1>1, <2>b DEF Goto
    <3>3. LinterAt'
      BY <1>2, <1>g, <2>0, <3>1, <3>2 DEF LinterAt, LintPlaces
    <3>4. ASSUME LintIsRight PROVE LintIsRight'
      <4>1. SeesTracked'
        BY <1>g, <2>0, <2>2, <3>1, <3>4 DEF SeesTracked, Tracked
      <4>2. CASE cache.errors[f] \in Bad
        <5>1. LintedBut(task[g].todo)'
          BY <2>0, <2>2, <3>1, <3>4, <4>2 DEF LintedBut, Linted, Tracked
        <5> QED
          BY <1>g, <3>2, <4>1, <4>2, <5>1 DEF LintIsRight, LintOf
      <4>3. CASE cache.errors[f] \notin Bad
        <5>1. LintedBut(task[g].todo \union {task[g].file})'
          BY <2>0, <2>2, <3>1, <3>4 DEF LintedBut, Linted, Tracked
        <5> QED
          BY <1>g, <3>2, <4>1, <4>3, <5>1 DEF LintIsRight, LintOf
      <4> QED
        BY <4>2, <4>3
    <3> QED
      BY <2>1, <3>3, <3>4, LintsOnlyKeeps
  <2> QED
    BY <1>7, <2>a, <2>b DEF LintCheck
<1>8. CASE SetFileDiagnostics(g)
  <2>0. /\ pc[g] = "lintStore" /\ pc'[g] = "lintCheck" /\ task' = task
        /\ ignoring' = ignoring /\ task[g].file \in Files
        /\ cache' = [cache EXCEPT !.diags[task[g].file] = task[g].copy[task[g].file]]
    BY <1>1, <1>8 DEF SetFileDiagnostics, CacheStep, config, Goto, FileLess
  <2>1. /\ cache'.contents = cache.contents /\ cache'.modules = cache.modules
        /\ cache'.errors = cache.errors /\ cache'.lines = cache.lines
        /\ cache'.diags = [cache.diags EXCEPT ![task[g].file] = task[g].copy[task[g].file]]
    BY <1>3, <2>0 DEF CacheTypes
  <2>2. LintsOnly
    BY <1>1, <1>8, <1>g, <2>1 DEF SetFileDiagnostics, CacheStep, LintsOnly,
       Goto, config, runs
  <2>3. LinterAt'
    BY <1>2, <1>g, <2>0 DEF LinterAt, LintPlaces
  <2>4. ASSUME LintIsRight PROVE LintIsRight'
    <3>1. SeesTracked /\ LintedBut(task[g].todo \union {task[g].file})
      BY <1>g, <2>0, <2>4 DEF LintIsRight, LintOf
    <3>2. SeesTracked'
      BY <1>g, <2>0, <2>1, <3>1 DEF SeesTracked, Tracked
    <3>3. LintedBut(task[g].todo)'
      <4> SUFFICES ASSUME NEW f \in Files \ task[g].todo, Tracked(f) PROVE Linted(f)'
        BY <2>0, <2>1 DEF LintedBut, Tracked
      <4>1. CASE f = task[g].file
        <5>1. cache'.diags[f] = task[g].copy[f]
          BY <1>3, <2>1, <4>1 DEF CacheTypes
        <5>2. task[g].copy[f] = cache'.modules[f]
          BY <1>g, <2>1, <3>1 DEF SeesTracked
        <5> QED
          BY <5>1, <5>2 DEF Linted
      <4>2. CASE f # task[g].file
        <5>1. cache'.diags[f] = cache.diags[f] /\ Linted(f)
          BY <1>3, <2>1, <3>1, <4>2 DEF CacheTypes, LintedBut
        <5> QED
          BY <2>1, <5>1 DEF Linted
      <4> QED
        BY <4>1, <4>2
    <3> QED
      BY <1>g, <2>0, <3>2, <3>3 DEF LintIsRight, LintOf
  <2> QED
    BY <2>2, <2>3, <2>4, LintsOnlyKeeps
<1>9. CASE LintFiles(g)
  <2>0. cache' = cache /\ pc[g] = "lintFiles" /\ ignoring' = ignoring
    BY <1>9 DEF LintFiles, LocalStep, config
  <2>1. pc'[g] = "lintSend" /\ task'[g].todo = AllFiles /\ task'[g].op = task[g].op
    BY <1>1, <1>9 DEF LintFiles, Goto, TaskTypes
  <2>2. LintsOnly
    BY <1>1, <1>9, <1>g DEF LintFiles, LintsOnly, LocalStep, Goto, config,
       runs
  <2>3. LinterAt'
    BY <1>2, <1>g, <2>0, <2>1 DEF LinterAt, LintPlaces
  <2>4. ASSUME LintIsRight PROVE LintIsRight'
    <3>1. LintedBut({})
      BY <1>g, <2>0, <2>4 DEF LintIsRight, LintOf
    <3>2. LintedBut({})' /\ ToldBut(task[g].todo)'
      BY <2>0, <2>1, <3>1 DEF LintedBut, Linted, ToldBut, Tracked, AllFiles,
         HasContents
    <3> QED
      BY <1>g, <2>1, <3>2 DEF LintIsRight, LintOf
  <2> QED
    BY <2>2, <2>3, <2>4, LintsOnlyKeeps
<1>10. CASE LintSend(g)
  <2>0. cache' = cache /\ pc[g] = "lintSend" /\ ignoring' = ignoring /\ client' = client
    BY <1>10 DEF LintSend, LocalStep, config, outside
  <2>1. LintsOnly
    BY <1>1, <1>10, <1>g DEF LintSend, LintsOnly, LocalStep, Goto, Finish,
       config, runs
  <2>c. ASSUME LintIsRight PROVE LintedBut({}) /\ ToldBut(task[g].todo)
    BY <1>g, <2>0, <2>c DEF LintIsRight, LintOf
  <2>a. CASE task[g].todo = {} /\ Finish(g)
    <3>1. pc'[g] = "idle"
      BY <1>1, <2>a DEF Finish
    <3>2. LinterAt'
      BY <1>g, <3>1 DEF LinterAt, LintPlaces
    <3>3. ASSUME LintIsRight PROVE LintIsRight'
      <4>1. LintedBut({})' /\ ToldBut({})'
        BY <2>0, <2>a, <2>c, <3>3 DEF LintedBut, Linted, ToldBut, Told, Shown,
           Tracked
      <4> QED
        BY <1>g, <3>1, <4>1 DEF LintIsRight, LintOf
    <3> QED
      BY <2>1, <3>2, <3>3, LintsOnlyKeeps
  <2>b. ASSUME NEW f \in task[g].todo,
               task' = [task EXCEPT ![g].file = f, ![g].todo = @ \ {f}],
               Goto(g, "sendErrors")
        PROVE  SettledInv'
    <3>1. /\ task'[g].file = f /\ task'[g].todo = task[g].todo \ {f}
          /\ task'[g].op = task[g].op /\ pc'[g] = "sendErrors"
      BY <1>1, <2>b DEF TaskTypes, Goto
    <3>2. LinterAt'
      BY <1>2, <1>g, <2>0, <3>1 DEF LinterAt, LintPlaces
    <3>3. ASSUME LintIsRight PROVE LintIsRight'
      <4>1. LintedBut({})' /\ ToldBut(task[g].todo \union {task[g].file})'
        BY <2>0, <2>c, <3>1, <3>3 DEF LintedBut, Linted, ToldBut, Told, Shown,
           Tracked
      <4> QED
        BY <1>g, <3>1, <4>1 DEF LintIsRight, LintOf
    <3> QED
      BY <2>1, <3>2, <3>3, LintsOnlyKeeps
  <2> QED
    BY <1>10, <2>a, <2>b DEF LintSend
<1>11. CASE SendErrors(g)
  <2>0. cache' = cache /\ pc[g] = "sendErrors" /\ ignoring' = ignoring /\ client' = client
    BY <1>11 DEF SendErrors, LocalStep, config, outside
  <2> DEFINE f == task[g].file
             e == cache.errors[f]
  <2>1. /\ task'[g].diag = (IF e \in Bad THEN e ELSE Nothing)
        /\ task'[g].file = f /\ task'[g].todo = task[g].todo /\ task'[g].op = task[g].op
        /\ pc'[g] = (IF e \in Bad THEN "notify" ELSE "sendDiags")
    BY <1>1, <1>11 DEF SendErrors, Goto, TaskTypes
  <2>2. LintsOnly
    BY <1>1, <1>11, <1>g DEF SendErrors, LintsOnly, LocalStep, Goto, config,
       runs
  <2>3. LinterAt'
    BY <1>2, <1>g, <2>0, <2>1 DEF LinterAt, LintPlaces
  <2>4. ASSUME LintIsRight PROVE LintIsRight'
    <3>1. LintedBut({}) /\ ToldBut(task[g].todo \union {f})
      BY <1>g, <2>0, <2>4 DEF LintIsRight, LintOf
    <3>2. LintedBut({})' /\ ToldBut(task[g].todo \union {task[g].file})'
      BY <2>0, <2>1, <3>1 DEF LintedBut, Linted, ToldBut, Told, Shown, Tracked
    <3>3. CASE e \in Bad
      <4>1. task'[g].diag = Shown(f)' /\ pc'[g] = "notify"
        BY <2>0, <2>1, <3>3 DEF Shown
      <4> QED
        BY <1>g, <2>1, <3>2, <4>1 DEF LintIsRight, LintOf, Shown
    <3>4. CASE e \notin Bad
      <4>1. cache'.errors[task'[g].file] \notin Bad /\ pc'[g] = "sendDiags"
        BY <2>0, <2>1, <3>4
      <4> QED
        BY <1>g, <3>2, <4>1 DEF LintIsRight, LintOf
    <3> QED
      BY <3>3, <3>4
  <2> QED
    BY <2>2, <2>3, <2>4, LintsOnlyKeeps
<1>12. CASE SendDiags(g)
  <2>0. cache' = cache /\ pc[g] = "sendDiags" /\ ignoring' = ignoring /\ client' = client
    BY <1>12 DEF SendDiags, LocalStep, config, outside
  <2> DEFINE f == task[g].file
  <2>1. /\ task'[g].diag = cache.diags[f]
        /\ task'[g].file = f /\ task'[g].todo = task[g].todo /\ task'[g].op = task[g].op
        /\ pc'[g] = "notify"
    BY <1>1, <1>12 DEF SendDiags, Goto, TaskTypes
  <2>2. LintsOnly
    BY <1>1, <1>12, <1>g DEF SendDiags, LintsOnly, LocalStep, Goto, config,
       runs
  <2>3. LinterAt'
    BY <1>2, <1>g, <2>0, <2>1 DEF LinterAt, LintPlaces
  <2>4. ASSUME LintIsRight PROVE LintIsRight'
    <3>1. /\ LintedBut({}) /\ ToldBut(task[g].todo \union {f})
          /\ Tracked(f) => cache.errors[f] \notin Bad
      BY <1>g, <2>0, <2>4 DEF LintIsRight, LintOf
    <3>2. LintedBut({})' /\ ToldBut(task[g].todo \union {task[g].file})'
      BY <2>0, <2>1, <3>1 DEF LintedBut, Linted, ToldBut, Told, Shown, Tracked
    <3>3. Tracked(task[g].file)' => task'[g].diag = Shown(task[g].file)'
      BY <2>0, <2>1, <3>1 DEF Shown, Tracked
    <3> QED
      BY <1>g, <2>1, <3>2, <3>3 DEF LintIsRight, LintOf
  <2> QED
    BY <2>2, <2>3, <2>4, LintsOnlyKeeps
<1>13. CASE Notify(g)
  <2>0. /\ cache' = cache /\ pc[g] = "notify" /\ ignoring' = ignoring
        /\ client' = [client EXCEPT ![task[g].file] = task[g].diag]
        /\ task[g].file \in Files
    BY <1>1, <1>13 DEF Notify, config, FileLess
  <2>1. pc'[g] = "lintSend" /\ task' = task
    BY <1>1, <1>2, <1>13, <2>0 DEF Notify, Goto
  <2>2. LintsOnly
    BY <1>1, <1>2, <1>13, <1>g, <2>0 DEF Notify, LintsOnly, Goto, config, runs
  <2>3. LinterAt'
    BY <1>2, <1>g, <2>0, <2>1 DEF LinterAt, LintPlaces
  <2>4. ASSUME LintIsRight PROVE LintIsRight'
    <3>1. /\ LintedBut({}) /\ ToldBut(task[g].todo \union {task[g].file})
          /\ Tracked(task[g].file) => task[g].diag = Shown(task[g].file)
      BY <1>g, <2>0, <2>4 DEF LintIsRight, LintOf
    <3>2. LintedBut({})'
      BY <2>0, <3>1 DEF LintedBut, Linted, Tracked
    <3>3. ToldBut(task[g].todo)'
      <4> SUFFICES ASSUME NEW f \in Files \ task[g].todo, Tracked(f)
                   PROVE  client'[f] = Shown(f)
        BY <2>0, <2>1 DEF ToldBut, Told, Shown, Tracked
      <4> QED
        BY <1>3, <2>0, <3>1 DEF ToldBut, Told
    <3> QED
      BY <1>g, <2>1, <3>2, <3>3 DEF LintIsRight, LintOf
  <2> QED
    BY <2>2, <2>3, <2>4, LintsOnlyKeeps
<1> QED
  BY <1>5, <1>6, <1>7, <1>8, <1>9, <1>10, <1>11, <1>12, <1>13

-----------------------------------------------------------------------------
(* All the steps, when operations come one at a time.                       *)

\* A goroutine that is busy takes no step of the config or the lint worker.
LEMMA OthersKeepSettled ==
  ASSUME TypeInv, TypeInv', SettledInv, NEW g \in Others, Step(g)
  PROVE  SettledInv'
<1>1. g \in DOMAIN pc /\ pc[g] \in BusyPlaces \union {"idle"}
  BY DEF SettledInv, Busy, RestsOrBusy, BusyAt, TypeInv, Others
<1>2. CASE MessageStep(g)
  <2>1. pc[g] # "idle"
    BY <1>2 DEF MessageStep, CacheStep, Decide, SetIgnored, CheckTemplating,
       SetContents, RequestLint, RequestTemplate
  <2> QED
    BY <1>2, <2>1, LocalStepsKeepSettled, MapStepsKeepSettled DEF MessageStep
<1>3. CASE ParseStep(g)
  <2>1. pc[g] # "idle"
    BY <1>3 DEF ParseStep, CacheStep, ParseRead, SetParseErrors, SetModule,
       SetLineCount, PutFileMod, PutFileRefs, AfterParse
  <2> QED
    BY <1>3, <2>1, LocalStepsKeepSettled, MapStepsKeepSettled DEF ParseStep
<1>4. CASE DiskStep(g)
  <2>1. pc[g] # "idle"
    BY <1>4 DEF DiskStep, CacheStep, CheckHasContents, ReadDisk,
       CompareContents, WriteFromDisk, Stat, RenameRead, RenameTarget
  <2> QED
    BY <1>4, <2>1, LocalStepsKeepSettled, MapStepsKeepSettled DEF DiskStep
<1>5. CASE DeleteStep(g)
  <2>1. pc[g] # "idle"
    BY <1>5 DEF DeleteStep, CacheStep, DeleteContents, DeleteIgnored,
       DeleteModule, DeleteDiagnostics, DeleteParseErrors, DeleteLineCount
  <2> QED
    BY <1>5, <2>1, MapStepsKeepSettled DEF DeleteStep
<1>6. CASE SendStep(g)
  <2>1. pc[g] # "idle"
    BY <1>6 DEF SendStep, SendErrors, SendDiags, Notify
  <2> QED
    BY <1>6, <2>1, LocalStepsKeepSettled, MapStepsKeepSettled DEF SendStep
<1>7. CASE TemplateStep(g)
  <2>1. pc[g] # "idle"
    BY <1>7 DEF TemplateStep, CacheStep, FormatRead, ClearFileDiagnostics,
       MarkTemplating, CheckEmpty, CheckEmptyOnDisk, ApplyTemplate, UnmarkTemplating, FixMismatch,
       MoveFrom, MoveTo, MoveSet, MovePut
  <2> QED
    BY <1>7, <2>1, LocalStepsKeepSettled, MapStepsKeepSettled DEF TemplateStep
<1>8. ~ConfigStep(g)
  BY <1>1 DEF ConfigStep, CacheStep, MoveNext, RemoveFileMod, CopyIgnored,
     RestoreNext, ClearIgnored, BusyPlaces, Parsing, Leaving, Gone
<1>9. ~LintStep(g)
  BY <1>1 DEF LintStep, CacheStep, Lint, LintCheck, SetFileDiagnostics,
     LintFiles, LintSend, BusyPlaces, Parsing, Leaving, Gone
<1> QED
  BY <1>2, <1>3, <1>4, <1>5, <1>6, <1>7, <1>8, <1>9 DEF Step

\* What starts when all others rest has only something to do.
LEMMA StartKeepsSettled ==
  ASSUME TypeInv, SettledInv, NEW g \in Others, pc[g] = "idle", AtRest, OnlyMoves(g),
         Untouched, BusyAt(pc[g], task[g])'
  PROVE  SettledInv'
<1>1. \A h \in Others \ {g} : pc[h] = "idle"
  BY DEF AtRest, Others
<1>2. RestsOrBusy(g)'
  BY DEF RestsOrBusy
<1>3. ~WillRequest(g) /\ \A f \in Files : ~InHand(g, f)
  BY DEF WillRequest, InHand, Parsing, Leaving, Gone
<1> QED
  BY <1>1, <1>2, <1>3, LocalKeepsSettled

\* A message or a tick.
LEMMA BeginKeepsSettled ==
  ASSUME InTurnOnly, TypeInv, SettledInv, NEW g \in Pool,
         NEW o \in AllOps \ {"reload", "drop"}, NEW f, NEW d, NEW t,
         NEW l \in {"decide", "format", "stat"}, Begin(g, o, f, d, t, l), client' = client,
         o = "rename" => f # d, o \in {"open", "edit"} => t # Nothing,
         l = "stat" => o = "sweep"
  PROVE  SettledInv'
<1>1. g \in Others /\ g \in DOMAIN pc /\ g \in DOMAIN task
  BY GoroutinesAreDistinct DEF Others, Goroutines, TypeInv
<1>2. pc[g] = "idle" /\ AtRest /\ OnlyMoves(g) /\ Untouched
  BY DEF InTurnOnly, Begin, MayStart, Goto, OnlyMoves, Untouched, config, runs
<1>3. pc'[g] = l
  BY <1>1 DEF Begin, Goto
<1>4. task'[g].op = o /\ task'[g].file = f /\ task'[g].dest = d /\ task'[g].text = t
  BY <1>1 DEF Begin, NoTask
<1>5. BusyAt(pc[g], task[g])'
  BY <1>3, <1>4 DEF BusyAt, BusyPlaces, Derived, WithText, Parsing, Leaving,
     Gone
<1> QED
  BY <1>1, <1>2, <1>5, StartKeepsSettled

\* Any message, or a tick of the state worker.
LEMMA ReceiveKeepsSettled ==
  ASSUME InTurnOnly, TypeInv, SettledInv, NEW g \in Pool, Receive(g)
  PROVE  SettledInv'
<1>1. \A t \in SentTexts : t # Nothing
  BY TextsAreDistinct
<1>2. \A o, f, d, t, l : Begin(g, o, f, d, t, l) => client' = client
  BY DEF Begin
<1>3. CASE ReceiveText(g)
  <2>1. PICK o \in {"open", "edit"}, f \in Files, t \in SentTexts : Begin(g, o, f, f, t, "decide")
    BY <1>3 DEF ReceiveText
  <2> QED
    BY <1>1, <1>2, <2>1, BeginKeepsSettled DEF AllOps
<1>4. CASE ReceiveGone(g)
  <2>1. PICK o \in {"close", "delete"}, f \in Files : Begin(g, o, f, f, Nothing, "decide")
    BY <1>4 DEF ReceiveGone
  <2> QED
    BY <1>2, <2>1, BeginKeepsSettled DEF AllOps
<1>5. CASE ReceiveFile(g)
  <2>1. CASE \E o \in {"create", "watched"}, f \in Files : Begin(g, o, f, f, Nothing, "decide")
    BY <1>2, <2>1, BeginKeepsSettled DEF AllOps
  <2>2. CASE \E f \in Files : Begin(g, "format", f, f, Nothing, "format")
    BY <1>2, <2>2, BeginKeepsSettled DEF AllOps
  <2> QED
    BY <1>5, <2>1, <2>2 DEF ReceiveFile
<1>6. CASE ReceiveRename(g)
  <2>1. PICK f \in Files, d \in Files : f # d /\ Begin(g, "rename", f, d, Nothing, "decide")
    BY <1>6 DEF ReceiveRename
  <2> QED
    BY <1>2, <2>1, BeginKeepsSettled DEF AllOps
<1>7. CASE StateWorkerTick(g)
  <2>1. PICK f \in Files : \/ Begin(g, "load", f, f, Nothing, "decide")
                           \/ Begin(g, "sweep", f, f, Nothing, "stat")
    BY <1>7 DEF StateWorkerTick
  <2> QED
    BY <1>2, <2>1, BeginKeepsSettled DEF AllOps
<1> QED
  BY <1>3, <1>4, <1>5, <1>6, <1>7 DEF Receive

\* The template worker takes a job.
LEMMA TakeTemplateJobKeepsSettled ==
  ASSUME InTurnOnly, TypeInv, SettledInv, TakeTemplateJob
  PROVE  SettledInv'
<1> DEFINE g == Templater
<1>1. g \in Others /\ g \in DOMAIN pc /\ g \in DOMAIN task
  BY GoroutinesAreDistinct DEF Others, Goroutines, TypeInv
<1>2. pc[g] = "idle" /\ AtRest /\ OnlyMoves(g) /\ Untouched
  BY DEF InTurnOnly, TakeTemplateJob, Goto, OnlyMoves, Untouched, outside,
     runs
<1>3. pc'[g] = "tmplMark" /\ task'[g].op = "template"
  BY <1>1 DEF TakeTemplateJob, Goto, NoTask
<1>4. BusyAt(pc[g], task[g])'
  BY <1>3 DEF BusyAt, BusyPlaces, Derived, WithText, Parsing, Leaving, Gone
<1> QED
  BY <1>1, <1>2, <1>4, StartKeepsSettled

\* A lint run begins: it sees the cache as it is.
LEMMA StartLintKeepsSettled ==
  ASSUME TypeInv, SettledInv, StartLint
  PROVE  SettledInv'
<1> DEFINE g == LintWorker
<1>1. g \in Goroutines /\ g \in DOMAIN pc /\ g \in DOMAIN task
  BY DEF Goroutines, TypeInv
<1>2. /\ pc'[g] = "lint" /\ cache' = cache /\ ignoring' = ignoring /\ store' = store
      /\ \A h \in Others : pc'[h] = pc[h] /\ task'[h] = task[h]
  BY <1>1 DEF StartLint, Goto, config, Others
<1>3. /\ task'[g].op = "lint" /\ task'[g].copy = cache.modules
      /\ task'[g].todo = {f \in Files : cache.modules[f] # Nothing}
  BY <1>1 DEF StartLint, NoTask
<1>4. Alone' /\ Busy'
  <2>1. \A h \in Others : BusyAt(pc[h], task[h]) => BusyAt(pc[h], task[h])'
    BY <1>2 DEF BusyAt, Derived
  <2> QED
    BY <1>2, <2>1 DEF SettledInv, Alone, Busy, RestsOrBusy
<1>5. LinterAt'
  BY <1>2, <1>3 DEF LinterAt, LintPlaces
<1>6. AllFollow'
  <2>1. \A h \in Others : \A f \in Files : InHand(h, f) => InHand(h, f)'
    BY <1>2 DEF InHand
  <2>2. \A f \in Files : (Tracked(f)' => Tracked(f)) /\ (Follows(f) => Follows(f)')
    BY <1>2 DEF Tracked, Follows
  <2> QED
    BY <2>1, <2>2 DEF SettledInv, AllFollow
<1>7. LintIsRight'
  BY <1>2, <1>3 DEF LintIsRight, LintOf, SeesTracked, Tracked
<1> QED
  BY <1>4, <1>5, <1>6, <1>7 DEF SettledInv

\* A change on disk, a poke, and a step of nobody.
LEMMA OutsideKeepsSettled ==
  ASSUME SettledInv, DiskChange \/ Poke \/ UNCHANGED vars
  PROVE  SettledInv'
<1>1. /\ cache' = cache /\ ignoring' = ignoring /\ client' = client /\ failed' = failed
      /\ store' = store /\ pc' = pc /\ task' = task /\ (owed' = owed \/ owed')
  BY DEF DiskChange, Poke, vars, config, outside, runs
<1>2. Alone' /\ Busy' /\ LinterAt'
  BY <1>1 DEF SettledInv, Alone, Busy, RestsOrBusy, BusyAt, Derived, LinterAt
<1>3. AllFollow'
  BY <1>1 DEF SettledInv, AllFollow, Tracked, InHand, Follows
<1>4. Requested => Requested'
  BY <1>1 DEF Requested, WillRequest, HasContents
<1>5. LintIsRight => LintIsRight'
  BY <1>1 DEF LintIsRight, LintOf, SeesTracked, LintedBut, ToldBut, Linted,
     Told, Shown, Tracked
<1> QED
  BY <1>2, <1>3, <1>4, <1>5 DEF SettledInv

\* At first no file is in the cache.
LEMMA SettledAtFirst ==
  ASSUME Init
  PROVE  SettledInv
<1>1. /\ \A g \in Goroutines : pc[g] = "idle"
      /\ LintWorker \in Goroutines
  BY DEF Init, Goroutines
<1>2. \A f \in Files : ~Tracked(f)
  BY DEF Init, InitMaps, Tracked, EveryFile
<1>3. Alone /\ Busy /\ LinterAt
  BY <1>1 DEF Alone, Busy, RestsOrBusy, Others, LinterAt, LintPlaces
<1>4. AllFollow
  BY <1>2 DEF AllFollow
<1>5. LintIsRight
  BY <1>1, <1>2 DEF LintIsRight, LintOf, LintedBut, ToldBut
<1> QED
  BY <1>3, <1>4, <1>5 DEF SettledInv

\* The invariant is kept by every step.
LEMMA NextKeepsSettled ==
  ASSUME InTurnOnly, TypeInv, TypeInv', SettledInv, [Next]_vars
  PROVE  SettledInv'
<1>1. CASE \E g \in Pool : Receive(g)
  BY <1>1, ReceiveKeepsSettled
<1>2. CASE TakeTemplateJob
  BY <1>2, TakeTemplateJobKeepsSettled
<1>3. ~TakeConfig
  BY DEF InTurnOnly, TakeConfig, LoadConfig, DropConfig, MayStart
<1>4. CASE StartLint
  BY <1>4, StartLintKeepsSettled
<1>5. CASE \E g \in Goroutines : Step(g)
  <2>1. PICK g \in Goroutines : Step(g)
    BY <1>5
  <2>2. CASE g = LintWorker
    BY <2>1, <2>2, LintWorkerKeepsSettled
  <2>3. CASE g # LintWorker
    BY <2>1, <2>3, OthersKeepSettled DEF Others
  <2> QED
    BY <2>2, <2>3
<1>6. CASE DiskChange \/ Poke \/ UNCHANGED vars
  BY <1>6, OutsideKeepsSettled
<1> QED
  BY <1>1, <1>2, <1>3, <1>4, <1>5, <1>6 DEF Next

\* At rest it is what the property says.
LEMMA SettledIsSeen ==
  ASSUME TypeInv, SettledInv
  PROVE  SettledView
<1> SUFFICES ASSUME Quiescent, ~failed, NEW f \in AllFiles \ ignoring,
                    cache.contents[f] # Template
             PROVE  Agrees(f)
  BY DEF SettledView
<1>1. /\ \A g \in Others : pc[g] = "idle"
      /\ pc[LintWorker] = "idle"
  BY DEF Quiescent, Others, Goroutines
<1>2. f \in Files /\ Tracked(f)
  BY DEF AllFiles, HasContents, Tracked
<1>3. ~Requested
  BY <1>1 DEF Quiescent, Requested, WillRequest, Leaving, Gone
<1>4. Follows(f) /\ (cache.modules[f] # Nothing \/ cache.errors[f] \in Bad)
  BY <1>2, <1>3, TrackedIsParsed
<1>5. Linted(f) /\ Told(f)
  BY <1>1, <1>2, <1>3 DEF SettledInv, LintIsRight, LintOf, LintedBut, ToldBut
<1>6. cache.contents[f] \in Good \union Bad
  BY <1>2 DEF Tracked, TypeInv, MapsOK, CacheTypes, MaybeText, Texts
<1>7. CASE cache.contents[f] \in Good
  <2>1. cache.errors[f] = Clean /\ Clean \notin Bad
    BY <1>4, <1>7, TextFacts DEF Follows
  <2>2. cache.diags[f] = cache.modules[f] /\ client[f] = cache.diags[f]
    BY <1>5, <2>1 DEF Linted, Told, Shown
  <2> QED
    BY <1>4, <1>7, <2>1, <2>2 DEF Follows, Agrees
<1>8. CASE cache.contents[f] \in Bad
  <2>1. cache.contents[f] \notin Good /\ cache.errors[f] = cache.contents[f]
    BY <1>4, <1>8, TextFacts DEF Follows
  <2>2. client[f] = cache.errors[f]
    BY <1>5, <1>8, <2>1 DEF Told, Shown
  <2> QED
    BY <2>1, <2>2 DEF Agrees
<1> QED
  BY <1>6, <1>7, <1>8

(* While operations come one at a time and the config stays (the lint worker *)
(* and the disk go on meanwhile): when all is done and the latest lint run   *)
(* did not fail, then of every file in the cache that is not ignored, and    *)
(* that the template worker has not just filled, the parse errors, module,   *)
(* line count, violations, parsed module and refs in the store, and what the *)
(* editor was sent, all follow from its contents (lint.go: updateParse,      *)
(* sendFileDiagnostics; server.go: the handlers of notifications, the state  *)
(* worker, the template worker, StartDiagnosticsWorker).                     *)
THEOREM SettledFollows ==
  ASSUME InTurnOnly
  PROVE  Spec => []SettledView
<1>1. Init => SettledInv
  BY SettledAtFirst
<1>2. TypeInv /\ TypeInv' /\ SettledInv /\ [Next]_vars => SettledInv'
  BY NextKeepsSettled
<1>3. TypeInv /\ SettledInv => SettledView
  BY SettledIsSeen
<1> QED
  BY <1>1, <1>2, <1>3, TypesHold, PTL DEF Spec

-----------------------------------------------------------------------------
(* Where the texts are, while what the editor does, the loading of files and *)
(* the loading of configs come one at a time.                                *)

EditorOps == {"open", "edit", "close", "watched", "load", "reload"}

EditorInTurn == OneAtATime /\ Ops \subseteq EditorOps \union {"poke"}

\* Where loadConfig is while it moves files out, and back.
Deleting == {"delContents", "delIgnored", "delModule", "delDiags", "delErrors", "delLines"}
MovingPlaces == Deleting \union {"move", "ignore", "removeMod"}
RestoringPlaces == Parsing \union {"restoring", "set", "parsed", "clearIgnored"}

\* Where a goroutine may be, and with what in hand, while no other is busy.
FitsOp(l, x) ==
  /\ x.op \in EditorOps \union {"loaded"}
  /\ l \in MovingPlaces \union RestoringPlaces \union
       {"decide", "templating?", "has", "read", "compare", "write", "request", "restore"}
  /\ l \in {"move", "removeMod", "restore", "restoring", "clearIgnored"} => x.op = "reload"
  /\ l = "decide" => x.op # "reload"
  /\ l \in {"has", "read", "compare", "write"} => x.op = "load"
  /\ l \in Deleting => x.op \in {"close", "reload"}
  /\ l \in {"ignore", "set"} => x.op \in {"open", "edit", "reload"}
  /\ l = "templating?" => x.op = "open"

FitsFile(l, x) ==
  /\ l \in Deleting \union {"ignore"} => x.file \in ignoring
  /\ l \in {"templating?", "set", "has", "read", "compare", "write"} => x.file \notin ignoring
  /\ l \in RestoringPlaces \ {"restoring"} /\ x.op = "reload" => x.file \notin ignoring
  /\ l \in {"templating?", "set"} => x.text # Nothing
  /\ l = "decide" /\ x.op \in {"open", "edit"} => x.text # Nothing

FitsContents(l, x) ==
  /\ l \in Parsing \ {"parse"} => HasContents(x.file)
  /\ l \in {"read", "compare", "write"} => ~HasContents(x.file)
  /\ l \in Deleting \ {"delContents"} => ~HasContents(x.file)

FitsReload(l, x) ==
  x.op = "reload" =>
    /\ l = "delContents" => HasContents(x.file) /\ x.text = cache.contents[x.file]
    /\ l \in {"ignore", "removeMod", "set"} => ~HasContents(x.file)
    /\ l \in {"delDiags", "delErrors", "delLines", "ignore", "removeMod"} =>
         cache.modules[x.file] = Nothing
    /\ l = "set" => x.text = cache.ignored[x.file]
    /\ l \in Parsing \union {"parsed", "clearIgnored"} => HasContents(x.file)
    /\ l \in RestoringPlaces =>
         \A f \in x.todo : f \notin ignoring /\ cache.ignored[f] # Nothing
                           /\ x.copy[f] = cache.ignored[f]
    /\ l \in RestoringPlaces \ {"restoring"} => x.file \notin x.todo

\* What the editor sent last for a file is in hand.
Carries(l, x) ==
  \/ x.op \in {"open", "edit"} /\ l \in {"decide", "ignore", "templating?", "set"}
  \/ x.op = "reload" /\ l \in (Deleting \ {"delContents"}) \union {"ignore"}

FitsEditor(l, x) ==
  /\ Carries(l, x) /\ editor[x.file] # Nothing => x.text = editor[x.file]
  /\ x.op = "close" => editor[x.file] = Nothing

FitsTurn(l, x) ==
  FitsOp(l, x) /\ FitsFile(l, x) /\ FitsContents(l, x) /\ FitsReload(l, x)
  /\ FitsEditor(l, x)

\* What is derived from a file that is gone is gone, but for one being moved.
ForgetsBut(l, x) ==
  \A f \in Files :
    \/ HasContents(f)
    \/ cache.modules[f] = Nothing /\ store.parsed[f] = Nothing
    \/ x.op = "reload" /\ l \in MovingPlaces \ {"move", "delContents"} /\ f = x.file

\* A file is in the part of the cache it belongs to, but for those to be moved.
ApartBut(l, x) ==
  \A f \in Files :
    /\ f \in ignoring =>
         \/ ~HasContents(f)
         \/ x.op = "reload" /\ l \in MovingPlaces /\ f \in x.todo
         \/ x.op = "reload" /\ l = "delContents" /\ f = x.file
    /\ f \notin ignoring =>
         \/ cache.ignored[f] = Nothing
         \/ x.op = "reload" /\ l \in MovingPlaces \union {"restore"}
         \/ x.op = "reload" /\ l \in RestoringPlaces /\ f \in x.todo
         \/ x.op = "reload" /\ l \in RestoringPlaces \ {"restoring"} /\ f = x.file

\* What the editor sent is in one part of the cache, or in hand.
KeptBut(l, x) ==
  \A f \in Files : editor[f] # Nothing =>
    \/ cache.contents[f] = editor[f]
    \/ ~HasContents(f) /\ cache.ignored[f] = editor[f]
    \/ f = x.file /\ Carries(l, x)

Sorted(l, x) ==
  /\ l # "idle" => FitsTurn(l, x)
  /\ ForgetsBut(l, x) /\ ApartBut(l, x) /\ KeptBut(l, x)

OnlyBusy(g) == \A h \in Others \ {g} : pc[h] = "idle"

TurnInv ==
  /\ Alone /\ LinterAt
  /\ templates = {} /\ templating = {}
  /\ \A g \in Others : OnlyBusy(g) => Sorted(pc[g], task[g])

\* What a step of the goroutine that is busy, or begins, has to satisfy.
LEMMA StepKeepsTurns ==
  ASSUME TypeInv, TurnInv, NEW g \in Others, OnlyBusy(g), OnlyMoves(g),
         UNCHANGED <<templates, templating>>, Sorted(pc[g], task[g])'
  PROVE  TurnInv'
<1>1. LintWorker \in Goroutines \ {g}
  BY DEF Others, Goroutines
<1>2. \A h \in Others \ {g} : pc'[h] = "idle"
  BY DEF OnlyMoves, OnlyBusy, Others
<1>3. Alone'
  BY <1>2 DEF Alone
<1>4. LinterAt'
  BY <1>1 DEF TurnInv, LinterAt, OnlyMoves
<1>5. ASSUME NEW h \in Others, OnlyBusy(h)'
      PROVE  Sorted(pc[h], task[h])'
  <2>1. CASE h = g
    BY <2>1
  <2>2. CASE h # g
    <3>1. pc'[g] = "idle" /\ pc'[h] = "idle"
      BY <1>2, <1>5, <2>2 DEF OnlyBusy
    <3>2. "idle" \notin MovingPlaces \union RestoringPlaces \union {"restore"}
      BY DEF MovingPlaces, RestoringPlaces, Deleting, Parsing
    <3>3. ForgetsBut(pc[h], task[h])'
      BY <3>1, <3>2 DEF Sorted, ForgetsBut
    <3>4. ApartBut(pc[h], task[h])'
      BY <3>1, <3>2 DEF Sorted, ApartBut, MovingPlaces, RestoringPlaces
    <3>5. KeptBut(pc[h], task[h])'
      BY <3>1, <3>2 DEF Sorted, KeptBut, Carries, MovingPlaces
    <3> QED
      BY <3>1, <3>3, <3>4, <3>5 DEF Sorted
  <2> QED
    BY <2>1, <2>2
<1> QED
  BY <1>3, <1>4, <1>5 DEF TurnInv

\* What is known of a goroutine that takes a step.
AtTurn(g) ==
  /\ g \in Goroutines /\ g # LintWorker /\ pc[g] \in Labels /\ task[g] \in TaskTypes
  /\ g \in DOMAIN pc /\ g \in DOMAIN task
  /\ pc[g] \notin FileLess => task[g].file \in Files
  /\ FitsTurn(pc[g], task[g])
  /\ ForgetsBut(pc[g], task[g])
  /\ ApartBut(pc[g], task[g])
  /\ KeptBut(pc[g], task[g])
  /\ cache \in CacheTypes /\ store \in StoreTypes /\ disk \in [Files -> MaybeText]
  /\ templating = {}

\* A goroutine that is busy is the only one, and what it has in hand fits.
LEMMA BusyIsAtTurn ==
  ASSUME TypeInv, TurnInv, NEW g \in Others, pc[g] # "idle"
  PROVE  AtTurn(g) /\ OnlyBusy(g)
<1>1. /\ g \in Goroutines /\ g # LintWorker /\ pc[g] \in Labels /\ task[g] \in TaskTypes
      /\ g \in DOMAIN pc /\ g \in DOMAIN task
      /\ pc[g] \notin FileLess => task[g].file \in Files
  BY DEF Others, TypeInv, FitsAt
<1>2. OnlyBusy(g)
  BY DEF TurnInv, Alone, OnlyBusy
<1>3. Sorted(pc[g], task[g]) /\ templating = {}
  BY <1>2 DEF TurnInv
<1>4. cache \in CacheTypes /\ store \in StoreTypes /\ disk \in [Files -> MaybeText]
  BY DEF TypeInv, MapsOK, WorldOK
<1> QED
  BY <1>1, <1>2, <1>3, <1>4 DEF AtTurn, Sorted

\* Nothing of the texts, and of what is derived from them, changes.
SameTexts ==
  /\ cache' = cache /\ store' = store
  /\ UNCHANGED <<ignoring, editor, templates, templating>>

\* The steps that only look.
LEMMA LookingKeepsTurns ==
  ASSUME TypeInv, TurnInv, NEW g \in Others, pc[g] # "idle",
         \/ Decide(g) \/ CheckTemplating(g) \/ ParseRead(g) \/ AfterParse(g)
         \/ CheckHasContents(g) \/ ReadDisk(g) \/ CompareContents(g)
         \/ CopyIgnored(g) \/ RequestLint(g)
  PROVE  TurnInv'
<1>1. AtTurn(g)
  BY BusyIsAtTurn
<1>2. OnlyBusy(g)
  BY BusyIsAtTurn
<1>3. CASE Decide(g)
  <2>1. OnlyMoves(g)
    BY <1>3 DEF Decide, OnlyMoves, LocalStep, Goto, Finish, TypeInv
  <2>2. SameTexts
    BY <1>3 DEF Decide, SameTexts, LocalStep, config, outside, runs
  <2>a. \/ pc'[g] = "idle" /\ task[g].op \notin {"open", "edit"}
        \/ /\ task' = task /\ task[g].file \in ignoring
           /\ \/ task[g].op \in {"open", "edit"} /\ pc'[g] = "ignore"
              \/ task[g].op = "close" /\ pc'[g] = "delContents"
        \/ /\ task' = task /\ task[g].file \notin ignoring
           /\ \/ task[g].op = "open" /\ pc'[g] = "templating?"
              \/ task[g].op = "edit" /\ pc'[g] = "set"
              \/ task[g].op = "watched" /\ pc'[g] = "parse"
              \/ task[g].op = "load" /\ pc'[g] = "has"
    BY <1>1, <1>3, <2>2 DEF Decide, AtTurn, FitsTurn, FitsOp, EditorOps, Goto,
       Finish
  <2>b. pc[g] = "decide"
    BY <1>1, <1>3 DEF Decide
  <2>3. pc'[g] # "idle" => FitsOp(pc[g], task[g])'
    BY <1>1, <2>a, <2>b, <2>2, TextFacts DEF AtTurn, FitsTurn, FitsOp,
       SameTexts, FileLess, HasContents, EditorOps, MovingPlaces,
       RestoringPlaces, Deleting, Parsing, Goto, Finish, TaskTypes, CacheTypes
  <2>4. pc'[g] # "idle" => FitsFile(pc[g], task[g])'
    BY <1>1, <2>a, <2>b, <2>2, TextFacts DEF AtTurn, FitsTurn, FitsFile,
       SameTexts, ApartBut, FileLess, HasContents, FitsOp, MovingPlaces,
       RestoringPlaces, Deleting, Parsing, Goto, Finish, TaskTypes, CacheTypes
  <2>5. pc'[g] # "idle" => FitsContents(pc[g], task[g])'
    BY <1>1, <2>a, <2>b, <2>2, TextFacts DEF AtTurn, FitsTurn, FitsContents,
       SameTexts, FileLess, HasContents, FitsOp, MovingPlaces,
       RestoringPlaces, Deleting, Parsing, Goto, Finish, TaskTypes, CacheTypes
  <2>6. pc'[g] # "idle" => FitsReload(pc[g], task[g])'
    BY <1>1, <2>a, <2>b, <2>2, TextFacts DEF AtTurn, FitsTurn, FitsReload,
       SameTexts, FileLess, HasContents, FitsOp, MovingPlaces,
       RestoringPlaces, Deleting, Parsing, Goto, Finish, TaskTypes, CacheTypes
  <2>7. pc'[g] # "idle" => FitsEditor(pc[g], task[g])'
    BY <1>1, <2>a, <2>b, <2>2, TextFacts DEF AtTurn, FitsTurn, FitsEditor,
       SameTexts, FileLess, HasContents, FitsOp, Carries, MovingPlaces,
       RestoringPlaces, Deleting, Parsing, Goto, Finish, TaskTypes, CacheTypes
  <2>8. ForgetsBut(pc[g], task[g])'
    BY <1>1, <2>a, <2>b, <2>2, TextFacts DEF AtTurn, FitsTurn, ForgetsBut,
       SameTexts, FileLess, HasContents, MovingPlaces, RestoringPlaces,
       Deleting, Parsing, Goto, Finish, TaskTypes, CacheTypes
  <2>9. ApartBut(pc[g], task[g])'
    BY <1>1, <2>a, <2>b, <2>2, TextFacts DEF AtTurn, FitsTurn, ApartBut,
       SameTexts, FileLess, HasContents, MovingPlaces, RestoringPlaces,
       Deleting, Parsing, Goto, Finish, TaskTypes, CacheTypes
  <2>10. KeptBut(pc[g], task[g])'
    BY <1>1, <2>a, <2>b, <2>2, TextFacts DEF AtTurn, FitsTurn, KeptBut,
       SameTexts, FileLess, HasContents, Carries, FitsEditor, MovingPlaces,
       RestoringPlaces, Deleting, Parsing, Goto, Finish, TaskTypes, CacheTypes
  <2> QED
    BY <1>2, <2>1, <2>2, <2>3, <2>4, <2>5, <2>6, <2>7, <2>8, <2>9, <2>10,
       StepKeepsTurns DEF Sorted, FitsTurn, SameTexts
<1>4. CASE CheckTemplating(g)
  <2>1. OnlyMoves(g)
    BY <1>4 DEF CheckTemplating, OnlyMoves, LocalStep, Goto, Finish, TypeInv
  <2>2. SameTexts
    BY <1>4 DEF CheckTemplating, SameTexts, LocalStep, config, outside, runs
  <2>3. pc'[g] # "idle" => FitsOp(pc[g], task[g])'
    BY <1>1, <1>4, <2>2, TextFacts DEF CheckTemplating, AtTurn, FitsTurn,
       FitsOp, SameTexts, FileLess, HasContents, EditorOps, MovingPlaces,
       RestoringPlaces, Deleting, Parsing, Goto, Finish, TaskTypes, CacheTypes
  <2>4. pc'[g] # "idle" => FitsFile(pc[g], task[g])'
    BY <1>1, <1>4, <2>2, TextFacts DEF CheckTemplating, AtTurn, FitsTurn,
       FitsFile, SameTexts, FileLess, HasContents, FitsOp, MovingPlaces,
       RestoringPlaces, Deleting, Parsing, Goto, Finish, TaskTypes, CacheTypes
  <2>5. pc'[g] # "idle" => FitsContents(pc[g], task[g])'
    BY <1>1, <1>4, <2>2, TextFacts DEF CheckTemplating, AtTurn, FitsTurn,
       FitsContents, SameTexts, FileLess, HasContents, FitsOp, MovingPlaces,
       RestoringPlaces, Deleting, Parsing, Goto, Finish, TaskTypes, CacheTypes
  <2>6. pc'[g] # "idle" => FitsReload(pc[g], task[g])'
    BY <1>1, <1>4, <2>2, TextFacts DEF CheckTemplating, AtTurn, FitsTurn,
       FitsReload, SameTexts, FileLess, HasContents, FitsOp, MovingPlaces,
       RestoringPlaces, Deleting, Parsing, Goto, Finish, TaskTypes, CacheTypes
  <2>7. pc'[g] # "idle" => FitsEditor(pc[g], task[g])'
    BY <1>1, <1>4, <2>2, TextFacts DEF CheckTemplating, AtTurn, FitsTurn,
       FitsEditor, SameTexts, FileLess, HasContents, FitsOp, Carries,
       MovingPlaces, RestoringPlaces, Deleting, Parsing, Goto, Finish,
       TaskTypes, CacheTypes
  <2>8. ForgetsBut(pc[g], task[g])'
    BY <1>1, <1>4, <2>2, TextFacts DEF CheckTemplating, AtTurn, FitsTurn,
       ForgetsBut, SameTexts, FileLess, HasContents, MovingPlaces,
       RestoringPlaces, Deleting, Parsing, Goto, Finish, TaskTypes, CacheTypes
  <2>9. ApartBut(pc[g], task[g])'
    BY <1>1, <1>4, <2>2, TextFacts DEF CheckTemplating, AtTurn, FitsTurn,
       ApartBut, SameTexts, FileLess, HasContents, MovingPlaces,
       RestoringPlaces, Deleting, Parsing, Goto, Finish, TaskTypes, CacheTypes
  <2>10. KeptBut(pc[g], task[g])'
    BY <1>1, <1>4, <2>2, TextFacts DEF CheckTemplating, AtTurn, FitsTurn,
       KeptBut, SameTexts, FileLess, HasContents, Carries, FitsEditor,
       MovingPlaces, RestoringPlaces, Deleting, Parsing, Goto, Finish,
       TaskTypes, CacheTypes
  <2> QED
    BY <1>2, <2>1, <2>2, <2>3, <2>4, <2>5, <2>6, <2>7, <2>8, <2>9, <2>10,
       StepKeepsTurns DEF Sorted, FitsTurn, SameTexts
<1>5. CASE ParseRead(g)
  <2>1. OnlyMoves(g)
    BY <1>5 DEF ParseRead, OnlyMoves, LocalStep, Goto, Finish, TypeInv
  <2>2. SameTexts
    BY <1>5 DEF ParseRead, SameTexts, LocalStep, config, outside, runs
  <2>3. pc'[g] # "idle" => FitsOp(pc[g], task[g])'
    BY <1>1, <1>5, <2>2, TextFacts DEF ParseRead, AtTurn, FitsTurn, FitsOp,
       SameTexts, FileLess, HasContents, EditorOps, MovingPlaces,
       RestoringPlaces, Deleting, Parsing, Goto, Finish, TaskTypes, CacheTypes
  <2>4. pc'[g] # "idle" => FitsFile(pc[g], task[g])'
    BY <1>1, <1>5, <2>2, TextFacts DEF ParseRead, AtTurn, FitsTurn, FitsFile,
       SameTexts, FileLess, HasContents, FitsOp, MovingPlaces,
       RestoringPlaces, Deleting, Parsing, Goto, Finish, TaskTypes, CacheTypes
  <2>5. pc'[g] # "idle" => FitsContents(pc[g], task[g])'
    BY <1>1, <1>5, <2>2, TextFacts DEF ParseRead, AtTurn, FitsTurn,
       FitsContents, SameTexts, FileLess, HasContents, FitsOp, MovingPlaces,
       RestoringPlaces, Deleting, Parsing, Goto, Finish, TaskTypes, CacheTypes
  <2>6. pc'[g] # "idle" => FitsReload(pc[g], task[g])'
    BY <1>1, <1>5, <2>2, TextFacts DEF ParseRead, AtTurn, FitsTurn,
       FitsReload, SameTexts, FileLess, HasContents, FitsOp, MovingPlaces,
       RestoringPlaces, Deleting, Parsing, Goto, Finish, TaskTypes, CacheTypes
  <2>7. pc'[g] # "idle" => FitsEditor(pc[g], task[g])'
    BY <1>1, <1>5, <2>2, TextFacts DEF ParseRead, AtTurn, FitsTurn,
       FitsEditor, SameTexts, FileLess, HasContents, FitsOp, Carries,
       MovingPlaces, RestoringPlaces, Deleting, Parsing, Goto, Finish,
       TaskTypes, CacheTypes
  <2>8. ForgetsBut(pc[g], task[g])'
    BY <1>1, <1>5, <2>2, TextFacts DEF ParseRead, AtTurn, FitsTurn,
       ForgetsBut, SameTexts, FileLess, HasContents, MovingPlaces,
       RestoringPlaces, Deleting, Parsing, Goto, Finish, TaskTypes, CacheTypes
  <2>9. ApartBut(pc[g], task[g])'
    BY <1>1, <1>5, <2>2, TextFacts DEF ParseRead, AtTurn, FitsTurn, ApartBut,
       SameTexts, FileLess, HasContents, MovingPlaces, RestoringPlaces,
       Deleting, Parsing, Goto, Finish, TaskTypes, CacheTypes
  <2>10. KeptBut(pc[g], task[g])'
    BY <1>1, <1>5, <2>2, TextFacts DEF ParseRead, AtTurn, FitsTurn, KeptBut,
       SameTexts, FileLess, HasContents, Carries, FitsEditor, MovingPlaces,
       RestoringPlaces, Deleting, Parsing, Goto, Finish, TaskTypes, CacheTypes
  <2> QED
    BY <1>2, <2>1, <2>2, <2>3, <2>4, <2>5, <2>6, <2>7, <2>8, <2>9, <2>10,
       StepKeepsTurns DEF Sorted, FitsTurn, SameTexts
<1>6. CASE AfterParse(g)
  <2>1. OnlyMoves(g)
    BY <1>6 DEF AfterParse, OnlyMoves, LocalStep, Goto, Finish, TypeInv
  <2>2. SameTexts
    BY <1>6 DEF AfterParse, SameTexts, LocalStep, config, outside, runs
  <2>3. pc'[g] # "idle" => FitsOp(pc[g], task[g])'
    BY <1>1, <1>6, <2>2, TextFacts DEF AfterParse, AtTurn, FitsTurn, FitsOp,
       SameTexts, FileLess, HasContents, EditorOps, MovingPlaces,
       RestoringPlaces, Deleting, Parsing, Goto, Finish, TaskTypes, CacheTypes
  <2>4. pc'[g] # "idle" => FitsFile(pc[g], task[g])'
    BY <1>1, <1>6, <2>2, TextFacts DEF AfterParse, AtTurn, FitsTurn, FitsFile,
       SameTexts, FileLess, HasContents, FitsOp, MovingPlaces,
       RestoringPlaces, Deleting, Parsing, Goto, Finish, TaskTypes, CacheTypes
  <2>5. pc'[g] # "idle" => FitsContents(pc[g], task[g])'
    BY <1>1, <1>6, <2>2, TextFacts DEF AfterParse, AtTurn, FitsTurn,
       FitsContents, SameTexts, FileLess, HasContents, FitsOp, MovingPlaces,
       RestoringPlaces, Deleting, Parsing, Goto, Finish, TaskTypes, CacheTypes
  <2>6. pc'[g] # "idle" => FitsReload(pc[g], task[g])'
    BY <1>1, <1>6, <2>2, TextFacts DEF AfterParse, AtTurn, FitsTurn,
       FitsReload, SameTexts, FileLess, HasContents, FitsOp, MovingPlaces,
       RestoringPlaces, Deleting, Parsing, Goto, Finish, TaskTypes, CacheTypes
  <2>7. pc'[g] # "idle" => FitsEditor(pc[g], task[g])'
    BY <1>1, <1>6, <2>2, TextFacts DEF AfterParse, AtTurn, FitsTurn,
       FitsEditor, SameTexts, FileLess, HasContents, FitsOp, Carries,
       MovingPlaces, RestoringPlaces, Deleting, Parsing, Goto, Finish,
       TaskTypes, CacheTypes
  <2>8. ForgetsBut(pc[g], task[g])'
    BY <1>1, <1>6, <2>2, TextFacts DEF AfterParse, AtTurn, FitsTurn,
       ForgetsBut, SameTexts, FileLess, HasContents, MovingPlaces,
       RestoringPlaces, Deleting, Parsing, Goto, Finish, TaskTypes, CacheTypes
  <2>9. ApartBut(pc[g], task[g])'
    BY <1>1, <1>6, <2>2, TextFacts DEF AfterParse, AtTurn, FitsTurn, ApartBut,
       SameTexts, FileLess, HasContents, MovingPlaces, RestoringPlaces,
       Deleting, Parsing, Goto, Finish, TaskTypes, CacheTypes
  <2>10. KeptBut(pc[g], task[g])'
    BY <1>1, <1>6, <2>2, TextFacts DEF AfterParse, AtTurn, FitsTurn, KeptBut,
       SameTexts, FileLess, HasContents, Carries, FitsEditor, MovingPlaces,
       RestoringPlaces, Deleting, Parsing, Goto, Finish, TaskTypes, CacheTypes
  <2> QED
    BY <1>2, <2>1, <2>2, <2>3, <2>4, <2>5, <2>6, <2>7, <2>8, <2>9, <2>10,
       StepKeepsTurns DEF Sorted, FitsTurn, SameTexts
<1>7. CASE CheckHasContents(g)
  <2>1. OnlyMoves(g)
    BY <1>7 DEF CheckHasContents, OnlyMoves, LocalStep, Goto, Finish, TypeInv
  <2>2. SameTexts
    BY <1>7 DEF CheckHasContents, SameTexts, LocalStep, config, outside, runs
  <2>3. pc'[g] # "idle" => FitsOp(pc[g], task[g])'
    BY <1>1, <1>7, <2>2, TextFacts DEF CheckHasContents, AtTurn, FitsTurn,
       FitsOp, SameTexts, FileLess, HasContents, EditorOps, MovingPlaces,
       RestoringPlaces, Deleting, Parsing, Goto, Finish, TaskTypes, CacheTypes
  <2>4. pc'[g] # "idle" => FitsFile(pc[g], task[g])'
    BY <1>1, <1>7, <2>2, TextFacts DEF CheckHasContents, AtTurn, FitsTurn,
       FitsFile, SameTexts, FileLess, HasContents, FitsOp, MovingPlaces,
       RestoringPlaces, Deleting, Parsing, Goto, Finish, TaskTypes, CacheTypes
  <2>5. pc'[g] # "idle" => FitsContents(pc[g], task[g])'
    BY <1>1, <1>7, <2>2, TextFacts DEF CheckHasContents, AtTurn, FitsTurn,
       FitsContents, SameTexts, FileLess, HasContents, FitsOp, MovingPlaces,
       RestoringPlaces, Deleting, Parsing, Goto, Finish, TaskTypes, CacheTypes
  <2>6. pc'[g] # "idle" => FitsReload(pc[g], task[g])'
    BY <1>1, <1>7, <2>2, TextFacts DEF CheckHasContents, AtTurn, FitsTurn,
       FitsReload, SameTexts, FileLess, HasContents, FitsOp, MovingPlaces,
       RestoringPlaces, Deleting, Parsing, Goto, Finish, TaskTypes, CacheTypes
  <2>7. pc'[g] # "idle" => FitsEditor(pc[g], task[g])'
    BY <1>1, <1>7, <2>2, TextFacts DEF CheckHasContents, AtTurn, FitsTurn,
       FitsEditor, SameTexts, FileLess, HasContents, FitsOp, Carries,
       MovingPlaces, RestoringPlaces, Deleting, Parsing, Goto, Finish,
       TaskTypes, CacheTypes
  <2>8. ForgetsBut(pc[g], task[g])'
    BY <1>1, <1>7, <2>2, TextFacts DEF CheckHasContents, AtTurn, FitsTurn,
       ForgetsBut, SameTexts, FileLess, HasContents, MovingPlaces,
       RestoringPlaces, Deleting, Parsing, Goto, Finish, TaskTypes, CacheTypes
  <2>9. ApartBut(pc[g], task[g])'
    BY <1>1, <1>7, <2>2, TextFacts DEF CheckHasContents, AtTurn, FitsTurn,
       ApartBut, SameTexts, FileLess, HasContents, MovingPlaces,
       RestoringPlaces, Deleting, Parsing, Goto, Finish, TaskTypes, CacheTypes
  <2>10. KeptBut(pc[g], task[g])'
    BY <1>1, <1>7, <2>2, TextFacts DEF CheckHasContents, AtTurn, FitsTurn,
       KeptBut, SameTexts, FileLess, HasContents, Carries, FitsEditor,
       MovingPlaces, RestoringPlaces, Deleting, Parsing, Goto, Finish,
       TaskTypes, CacheTypes
  <2> QED
    BY <1>2, <2>1, <2>2, <2>3, <2>4, <2>5, <2>6, <2>7, <2>8, <2>9, <2>10,
       StepKeepsTurns DEF Sorted, FitsTurn, SameTexts
<1>8. CASE ReadDisk(g)
  <2>1. OnlyMoves(g)
    BY <1>8 DEF ReadDisk, OnlyMoves, LocalStep, Goto, Finish, TypeInv
  <2>2. SameTexts
    BY <1>8 DEF ReadDisk, SameTexts, LocalStep, config, outside, runs
  <2>3. pc'[g] # "idle" => FitsOp(pc[g], task[g])'
    BY <1>1, <1>8, <2>2, TextFacts DEF ReadDisk, Target, AtTurn, FitsTurn,
       FitsOp, SameTexts, FileLess, HasContents, EditorOps, MovingPlaces,
       RestoringPlaces, Deleting, Parsing, Goto, Finish, TaskTypes, CacheTypes
  <2>4. pc'[g] # "idle" => FitsFile(pc[g], task[g])'
    BY <1>1, <1>8, <2>2, TextFacts DEF ReadDisk, Target, AtTurn, FitsTurn,
       FitsFile, SameTexts, FileLess, HasContents, FitsOp, MovingPlaces,
       RestoringPlaces, Deleting, Parsing, Goto, Finish, TaskTypes, CacheTypes
  <2>5. pc'[g] # "idle" => FitsContents(pc[g], task[g])'
    BY <1>1, <1>8, <2>2, TextFacts DEF ReadDisk, Target, AtTurn, FitsTurn,
       FitsContents, SameTexts, FileLess, HasContents, FitsOp, MovingPlaces,
       RestoringPlaces, Deleting, Parsing, Goto, Finish, TaskTypes, CacheTypes
  <2>6. pc'[g] # "idle" => FitsReload(pc[g], task[g])'
    BY <1>1, <1>8, <2>2, TextFacts DEF ReadDisk, Target, AtTurn, FitsTurn,
       FitsReload, SameTexts, FileLess, HasContents, FitsOp, MovingPlaces,
       RestoringPlaces, Deleting, Parsing, Goto, Finish, TaskTypes, CacheTypes
  <2>7. pc'[g] # "idle" => FitsEditor(pc[g], task[g])'
    BY <1>1, <1>8, <2>2, TextFacts DEF ReadDisk, Target, AtTurn, FitsTurn,
       FitsEditor, SameTexts, FileLess, HasContents, FitsOp, Carries,
       MovingPlaces, RestoringPlaces, Deleting, Parsing, Goto, Finish,
       TaskTypes, CacheTypes
  <2>8. ForgetsBut(pc[g], task[g])'
    BY <1>1, <1>8, <2>2, TextFacts DEF ReadDisk, Target, AtTurn, FitsTurn,
       ForgetsBut, SameTexts, FileLess, HasContents, MovingPlaces,
       RestoringPlaces, Deleting, Parsing, Goto, Finish, TaskTypes, CacheTypes
  <2>9. ApartBut(pc[g], task[g])'
    BY <1>1, <1>8, <2>2, TextFacts DEF ReadDisk, Target, AtTurn, FitsTurn,
       ApartBut, SameTexts, FileLess, HasContents, MovingPlaces,
       RestoringPlaces, Deleting, Parsing, Goto, Finish, TaskTypes, CacheTypes
  <2>10. KeptBut(pc[g], task[g])'
    BY <1>1, <1>8, <2>2, TextFacts DEF ReadDisk, Target, AtTurn, FitsTurn,
       KeptBut, SameTexts, FileLess, HasContents, Carries, FitsEditor,
       MovingPlaces, RestoringPlaces, Deleting, Parsing, Goto, Finish,
       TaskTypes, CacheTypes
  <2> QED
    BY <1>2, <2>1, <2>2, <2>3, <2>4, <2>5, <2>6, <2>7, <2>8, <2>9, <2>10,
       StepKeepsTurns DEF Sorted, FitsTurn, SameTexts
<1>9. CASE CompareContents(g)
  <2>1. OnlyMoves(g)
    BY <1>9 DEF CompareContents, OnlyMoves, LocalStep, Goto, Finish, TypeInv
  <2>2. SameTexts
    BY <1>9 DEF CompareContents, SameTexts, LocalStep, config, outside, runs
  <2>3. pc'[g] # "idle" => FitsOp(pc[g], task[g])'
    BY <1>1, <1>9, <2>2, TextFacts DEF CompareContents, AfterUpdate, Target,
       AtTurn, FitsTurn, FitsOp, SameTexts, FileLess, HasContents, EditorOps,
       MovingPlaces, RestoringPlaces, Deleting, Parsing, Goto, Finish,
       TaskTypes, CacheTypes
  <2>4. pc'[g] # "idle" => FitsFile(pc[g], task[g])'
    BY <1>1, <1>9, <2>2, TextFacts DEF CompareContents, AfterUpdate, Target,
       AtTurn, FitsTurn, FitsFile, SameTexts, FileLess, HasContents, FitsOp,
       MovingPlaces, RestoringPlaces, Deleting, Parsing, Goto, Finish,
       TaskTypes, CacheTypes
  <2>5. pc'[g] # "idle" => FitsContents(pc[g], task[g])'
    BY <1>1, <1>9, <2>2, TextFacts DEF CompareContents, AfterUpdate, Target,
       AtTurn, FitsTurn, FitsContents, SameTexts, FileLess, HasContents,
       FitsOp, MovingPlaces, RestoringPlaces, Deleting, Parsing, Goto, Finish,
       TaskTypes, CacheTypes
  <2>6. pc'[g] # "idle" => FitsReload(pc[g], task[g])'
    BY <1>1, <1>9, <2>2, TextFacts DEF CompareContents, AfterUpdate, Target,
       AtTurn, FitsTurn, FitsReload, SameTexts, FileLess, HasContents, FitsOp,
       MovingPlaces, RestoringPlaces, Deleting, Parsing, Goto, Finish,
       TaskTypes, CacheTypes
  <2>7. pc'[g] # "idle" => FitsEditor(pc[g], task[g])'
    BY <1>1, <1>9, <2>2, TextFacts DEF CompareContents, AfterUpdate, Target,
       AtTurn, FitsTurn, FitsEditor, SameTexts, FileLess, HasContents, FitsOp,
       Carries, MovingPlaces, RestoringPlaces, Deleting, Parsing, Goto,
       Finish, TaskTypes, CacheTypes
  <2>8. ForgetsBut(pc[g], task[g])'
    BY <1>1, <1>9, <2>2, TextFacts DEF CompareContents, AfterUpdate, Target,
       AtTurn, FitsTurn, ForgetsBut, SameTexts, FileLess, HasContents,
       MovingPlaces, RestoringPlaces, Deleting, Parsing, Goto, Finish,
       TaskTypes, CacheTypes
  <2>9. ApartBut(pc[g], task[g])'
    BY <1>1, <1>9, <2>2, TextFacts DEF CompareContents, AfterUpdate, Target,
       AtTurn, FitsTurn, ApartBut, SameTexts, FileLess, HasContents,
       MovingPlaces, RestoringPlaces, Deleting, Parsing, Goto, Finish,
       TaskTypes, CacheTypes
  <2>10. KeptBut(pc[g], task[g])'
    BY <1>1, <1>9, <2>2, TextFacts DEF CompareContents, AfterUpdate, Target,
       AtTurn, FitsTurn, KeptBut, SameTexts, FileLess, HasContents, Carries,
       FitsEditor, MovingPlaces, RestoringPlaces, Deleting, Parsing, Goto,
       Finish, TaskTypes, CacheTypes
  <2> QED
    BY <1>2, <2>1, <2>2, <2>3, <2>4, <2>5, <2>6, <2>7, <2>8, <2>9, <2>10,
       StepKeepsTurns DEF Sorted, FitsTurn, SameTexts
<1>10. CASE CopyIgnored(g)
  <2>1. OnlyMoves(g)
    BY <1>10 DEF CopyIgnored, OnlyMoves, LocalStep, Goto, Finish, TypeInv
  <2>2. SameTexts
    BY <1>10 DEF CopyIgnored, SameTexts, LocalStep, config, outside, runs
  <2>3. pc'[g] # "idle" => FitsOp(pc[g], task[g])'
    BY <1>1, <1>10, <2>2, TextFacts DEF CopyIgnored, AtTurn, FitsTurn, FitsOp,
       SameTexts, FileLess, HasContents, EditorOps, MovingPlaces,
       RestoringPlaces, Deleting, Parsing, Goto, Finish, TaskTypes, CacheTypes
  <2>4. pc'[g] # "idle" => FitsFile(pc[g], task[g])'
    BY <1>1, <1>10, <2>2, TextFacts DEF CopyIgnored, AtTurn, FitsTurn,
       FitsFile, SameTexts, FileLess, HasContents, FitsOp, MovingPlaces,
       RestoringPlaces, Deleting, Parsing, Goto, Finish, TaskTypes, CacheTypes
  <2>5. pc'[g] # "idle" => FitsContents(pc[g], task[g])'
    BY <1>1, <1>10, <2>2, TextFacts DEF CopyIgnored, AtTurn, FitsTurn,
       FitsContents, SameTexts, FileLess, HasContents, FitsOp, MovingPlaces,
       RestoringPlaces, Deleting, Parsing, Goto, Finish, TaskTypes, CacheTypes
  <2>6. pc'[g] # "idle" => FitsReload(pc[g], task[g])'
    BY <1>1, <1>10, <2>2, TextFacts DEF CopyIgnored, AtTurn, FitsTurn,
       FitsReload, SameTexts, FileLess, HasContents, FitsOp, MovingPlaces,
       RestoringPlaces, Deleting, Parsing, Goto, Finish, TaskTypes, CacheTypes
  <2>7. pc'[g] # "idle" => FitsEditor(pc[g], task[g])'
    BY <1>1, <1>10, <2>2, TextFacts DEF CopyIgnored, AtTurn, FitsTurn,
       FitsEditor, SameTexts, FileLess, HasContents, FitsOp, Carries,
       MovingPlaces, RestoringPlaces, Deleting, Parsing, Goto, Finish,
       TaskTypes, CacheTypes
  <2>8. ForgetsBut(pc[g], task[g])'
    BY <1>1, <1>10, <2>2, TextFacts DEF CopyIgnored, AtTurn, FitsTurn,
       ForgetsBut, SameTexts, FileLess, HasContents, MovingPlaces,
       RestoringPlaces, Deleting, Parsing, Goto, Finish, TaskTypes, CacheTypes
  <2>9. ApartBut(pc[g], task[g])'
    BY <1>1, <1>10, <2>2, TextFacts DEF CopyIgnored, AtTurn, FitsTurn,
       ApartBut, SameTexts, FileLess, HasContents, MovingPlaces,
       RestoringPlaces, Deleting, Parsing, Goto, Finish, TaskTypes, CacheTypes
  <2>10. KeptBut(pc[g], task[g])'
    BY <1>1, <1>10, <2>2, TextFacts DEF CopyIgnored, AtTurn, FitsTurn,
       KeptBut, SameTexts, FileLess, HasContents, Carries, FitsEditor,
       MovingPlaces, RestoringPlaces, Deleting, Parsing, Goto, Finish,
       TaskTypes, CacheTypes
  <2> QED
    BY <1>2, <2>1, <2>2, <2>3, <2>4, <2>5, <2>6, <2>7, <2>8, <2>9, <2>10,
       StepKeepsTurns DEF Sorted, FitsTurn, SameTexts
<1>11. CASE RequestLint(g)
  <2>1. OnlyMoves(g)
    BY <1>11 DEF RequestLint, OnlyMoves, LocalStep, Goto, Finish, TypeInv
  <2>2. SameTexts
    BY <1>11 DEF RequestLint, SameTexts, LocalStep, config, outside, runs
  <2>3. pc'[g] # "idle" => FitsOp(pc[g], task[g])'
    BY <1>1, <1>11, <2>2, TextFacts DEF RequestLint, AtTurn, FitsTurn, FitsOp,
       SameTexts, FileLess, HasContents, EditorOps, MovingPlaces,
       RestoringPlaces, Deleting, Parsing, Goto, Finish, TaskTypes, CacheTypes
  <2>4. pc'[g] # "idle" => FitsFile(pc[g], task[g])'
    BY <1>1, <1>11, <2>2, TextFacts DEF RequestLint, AtTurn, FitsTurn,
       FitsFile, SameTexts, FileLess, HasContents, FitsOp, MovingPlaces,
       RestoringPlaces, Deleting, Parsing, Goto, Finish, TaskTypes, CacheTypes
  <2>5. pc'[g] # "idle" => FitsContents(pc[g], task[g])'
    BY <1>1, <1>11, <2>2, TextFacts DEF RequestLint, AtTurn, FitsTurn,
       FitsContents, SameTexts, FileLess, HasContents, FitsOp, MovingPlaces,
       RestoringPlaces, Deleting, Parsing, Goto, Finish, TaskTypes, CacheTypes
  <2>6. pc'[g] # "idle" => FitsReload(pc[g], task[g])'
    BY <1>1, <1>11, <2>2, TextFacts DEF RequestLint, AtTurn, FitsTurn,
       FitsReload, SameTexts, FileLess, HasContents, FitsOp, MovingPlaces,
       RestoringPlaces, Deleting, Parsing, Goto, Finish, TaskTypes, CacheTypes
  <2>7. pc'[g] # "idle" => FitsEditor(pc[g], task[g])'
    BY <1>1, <1>11, <2>2, TextFacts DEF RequestLint, AtTurn, FitsTurn,
       FitsEditor, SameTexts, FileLess, HasContents, FitsOp, Carries,
       MovingPlaces, RestoringPlaces, Deleting, Parsing, Goto, Finish,
       TaskTypes, CacheTypes
  <2>8. ForgetsBut(pc[g], task[g])'
    BY <1>1, <1>11, <2>2, TextFacts DEF RequestLint, AtTurn, FitsTurn,
       ForgetsBut, SameTexts, FileLess, HasContents, MovingPlaces,
       RestoringPlaces, Deleting, Parsing, Goto, Finish, TaskTypes, CacheTypes
  <2>9. ApartBut(pc[g], task[g])'
    BY <1>1, <1>11, <2>2, TextFacts DEF RequestLint, AtTurn, FitsTurn,
       ApartBut, SameTexts, FileLess, HasContents, MovingPlaces,
       RestoringPlaces, Deleting, Parsing, Goto, Finish, TaskTypes, CacheTypes
  <2>10. KeptBut(pc[g], task[g])'
    BY <1>1, <1>11, <2>2, TextFacts DEF RequestLint, AtTurn, FitsTurn,
       KeptBut, SameTexts, FileLess, HasContents, Carries, FitsEditor,
       MovingPlaces, RestoringPlaces, Deleting, Parsing, Goto, Finish,
       TaskTypes, CacheTypes
  <2> QED
    BY <1>2, <2>1, <2>2, <2>3, <2>4, <2>5, <2>6, <2>7, <2>8, <2>9, <2>10,
       StepKeepsTurns DEF Sorted, FitsTurn, SameTexts
<1> QED
  BY <1>3, <1>4, <1>5, <1>6, <1>7, <1>8, <1>9, <1>10, <1>11

\* The steps that write to a map.
LEMMA WritingKeepsTurns ==
  ASSUME TypeInv, TypeInv', TurnInv, NEW g \in Others, pc[g] # "idle",
         \/ SetIgnored(g) \/ SetContents(g) \/ SetParseErrors(g) \/ SetModule(g)
         \/ SetLineCount(g) \/ PutFileMod(g) \/ PutFileRefs(g) \/ WriteFromDisk(g)
         \/ DeleteContents(g) \/ DeleteIgnored(g) \/ DeleteModule(g) \/ DeleteDiagnostics(g)
         \/ DeleteParseErrors(g) \/ DeleteLineCount(g) \/ RemoveFileMod(g) \/ ClearIgnored(g)
  PROVE  TurnInv'
<1>1. AtTurn(g)
  BY BusyIsAtTurn
<1>2. OnlyBusy(g)
  BY BusyIsAtTurn
<1>3. CASE SetIgnored(g)
  <2>1. OnlyMoves(g)
    BY <1>3 DEF SetIgnored, OnlyMoves, CacheStep, Goto, Finish, TypeInv
  <2>2. /\ pc[g] = "ignore" /\ task[g].file \in Files
        /\ cache'.contents = cache.contents
        /\ cache'.ignored = [cache.ignored EXCEPT ![task[g].file] = task[g].text]
        /\ cache'.modules = cache.modules
        /\ store'.parsed = store.parsed
        /\ UNCHANGED <<ignoring, editor, templates, templating>>
    BY <1>1, <1>3 DEF SetIgnored, CacheStep, AtTurn, FileLess, CacheTypes,
       StoreTypes, config, outside, runs
  <2>3. /\ task[g].op = "reload" => pc'[g] = "removeMod" /\ task' = task
        /\ task[g].op # "reload" => pc'[g] = "idle"
    BY <1>1, <1>3, <2>2 DEF SetIgnored, CacheStep, AtTurn, FitsTurn, FitsOp,
       FitsFile, EditorOps, MovingPlaces, RestoringPlaces, Deleting, Parsing,
       Goto, Finish
  <2>4. pc'[g] # "idle" => FitsOp(pc[g], task[g])'
    BY <1>1, <2>2, <2>3, TextFacts DEF AtTurn, FitsTurn, FitsFile,
       FitsContents, FitsReload, FitsOp, ApartBut, HasContents, EditorOps,
       MovingPlaces, RestoringPlaces, Deleting, Parsing, TaskTypes,
       CacheTypes, StoreTypes
  <2>5. pc'[g] # "idle" => FitsFile(pc[g], task[g])'
    BY <1>1, <2>2, <2>3, TextFacts DEF AtTurn, FitsTurn, FitsOp, FitsContents,
       FitsReload, FitsFile, ApartBut, HasContents, MovingPlaces,
       RestoringPlaces, Deleting, Parsing, TaskTypes, CacheTypes, StoreTypes
  <2>6. pc'[g] # "idle" => FitsContents(pc[g], task[g])'
    BY <1>1, <2>2, <2>3, TextFacts DEF AtTurn, FitsTurn, FitsOp, FitsFile,
       FitsReload, FitsContents, ApartBut, HasContents, MovingPlaces,
       RestoringPlaces, Deleting, Parsing, TaskTypes, CacheTypes, StoreTypes
  <2>7. pc'[g] # "idle" => FitsReload(pc[g], task[g])'
    BY <1>1, <2>2, <2>3, TextFacts DEF AtTurn, FitsTurn, FitsOp, FitsFile,
       FitsContents, FitsReload, ApartBut, HasContents, MovingPlaces,
       RestoringPlaces, Deleting, Parsing, TaskTypes, CacheTypes, StoreTypes
  <2>8. pc'[g] # "idle" => FitsEditor(pc[g], task[g])'
    BY <1>1, <2>2, <2>3, TextFacts DEF AtTurn, FitsTurn, FitsOp, FitsFile,
       FitsContents, FitsReload, FitsEditor, Carries, ApartBut, HasContents,
       MovingPlaces, RestoringPlaces, Deleting, Parsing, TaskTypes,
       CacheTypes, StoreTypes
  <2>9. ForgetsBut(pc[g], task[g])'
    BY <1>1, <2>2, <2>3, TextFacts DEF AtTurn, FitsTurn, FitsOp, FitsFile,
       FitsContents, FitsReload, ForgetsBut, ApartBut, HasContents,
       MovingPlaces, RestoringPlaces, Deleting, Parsing, TaskTypes,
       CacheTypes, StoreTypes
  <2>10. ApartBut(pc[g], task[g])'
    BY <1>1, <2>2, <2>3, TextFacts DEF AtTurn, FitsTurn, FitsOp, FitsFile,
       FitsContents, FitsReload, ApartBut, HasContents, MovingPlaces,
       RestoringPlaces, Deleting, Parsing, TaskTypes, CacheTypes, StoreTypes
  <2>11. KeptBut(pc[g], task[g])'
    BY <1>1, <2>2, <2>3, TextFacts DEF AtTurn, FitsTurn, FitsOp, FitsFile,
       FitsContents, FitsReload, FitsEditor, Carries, KeptBut, ApartBut,
       HasContents, MovingPlaces, RestoringPlaces, Deleting, Parsing,
       TaskTypes, CacheTypes, StoreTypes
  <2> QED
    BY <1>2, <2>1, <2>2, <2>4, <2>5, <2>6, <2>7, <2>8, <2>9, <2>10,
       <2>11, StepKeepsTurns DEF Sorted, FitsTurn
<1>4. CASE SetContents(g)
  <2>1. OnlyMoves(g)
    BY <1>4 DEF SetContents, OnlyMoves, CacheStep, Goto, Finish, TypeInv
  <2>2. /\ pc[g] = "set" /\ task[g].file \in Files
        /\ cache'.contents = [cache.contents EXCEPT ![task[g].file] = task[g].text]
        /\ cache'.ignored = cache.ignored
        /\ cache'.modules = cache.modules
        /\ store'.parsed = store.parsed
        /\ UNCHANGED <<ignoring, editor, templates, templating>>
    BY <1>1, <1>4 DEF SetContents, CacheStep, AtTurn, FileLess, CacheTypes,
       StoreTypes, config, outside, runs
  <2>3. pc'[g] = "parse" /\ task' = task
    BY <1>1, <1>4, <2>2 DEF SetContents, CacheStep, AtTurn, FitsTurn, FitsOp,
       FitsFile, EditorOps, MovingPlaces, RestoringPlaces, Deleting, Parsing,
       Goto, Finish
  <2>4. pc'[g] # "idle" => FitsOp(pc[g], task[g])'
    BY <1>1, <2>2, <2>3, TextFacts DEF AtTurn, FitsTurn, FitsFile,
       FitsContents, FitsReload, FitsOp, ApartBut, HasContents, EditorOps,
       MovingPlaces, RestoringPlaces, Deleting, Parsing, TaskTypes,
       CacheTypes, StoreTypes
  <2>5. pc'[g] # "idle" => FitsFile(pc[g], task[g])'
    BY <1>1, <2>2, <2>3, TextFacts DEF AtTurn, FitsTurn, FitsOp, FitsContents,
       FitsReload, FitsFile, ApartBut, HasContents, MovingPlaces,
       RestoringPlaces, Deleting, Parsing, TaskTypes, CacheTypes, StoreTypes
  <2>6. pc'[g] # "idle" => FitsContents(pc[g], task[g])'
    BY <1>1, <2>2, <2>3, TextFacts DEF AtTurn, FitsTurn, FitsOp, FitsFile,
       FitsReload, FitsContents, ApartBut, HasContents, MovingPlaces,
       RestoringPlaces, Deleting, Parsing, TaskTypes, CacheTypes, StoreTypes
  <2>7. pc'[g] # "idle" => FitsReload(pc[g], task[g])'
    BY <1>1, <2>2, <2>3, TextFacts DEF AtTurn, FitsTurn, FitsOp, FitsFile,
       FitsContents, FitsReload, ApartBut, HasContents, MovingPlaces,
       RestoringPlaces, Deleting, Parsing, TaskTypes, CacheTypes, StoreTypes
  <2>8. pc'[g] # "idle" => FitsEditor(pc[g], task[g])'
    BY <1>1, <2>2, <2>3, TextFacts DEF AtTurn, FitsTurn, FitsOp, FitsFile,
       FitsContents, FitsReload, FitsEditor, Carries, ApartBut, HasContents,
       MovingPlaces, RestoringPlaces, Deleting, Parsing, TaskTypes,
       CacheTypes, StoreTypes
  <2>9. ForgetsBut(pc[g], task[g])'
    BY <1>1, <2>2, <2>3, TextFacts DEF AtTurn, FitsTurn, FitsOp, FitsFile,
       FitsContents, FitsReload, ForgetsBut, ApartBut, HasContents,
       MovingPlaces, RestoringPlaces, Deleting, Parsing, TaskTypes,
       CacheTypes, StoreTypes
  <2>10. ApartBut(pc[g], task[g])'
    BY <1>1, <2>2, <2>3, TextFacts DEF AtTurn, FitsTurn, FitsOp, FitsFile,
       FitsContents, FitsReload, ApartBut, HasContents, MovingPlaces,
       RestoringPlaces, Deleting, Parsing, TaskTypes, CacheTypes, StoreTypes
  <2>11. KeptBut(pc[g], task[g])'
    BY <1>1, <2>2, <2>3, TextFacts DEF AtTurn, FitsTurn, FitsOp, FitsFile,
       FitsContents, FitsReload, FitsEditor, Carries, KeptBut, ApartBut,
       HasContents, MovingPlaces, RestoringPlaces, Deleting, Parsing,
       TaskTypes, CacheTypes, StoreTypes
  <2> QED
    BY <1>2, <2>1, <2>2, <2>4, <2>5, <2>6, <2>7, <2>8, <2>9, <2>10,
       <2>11, StepKeepsTurns DEF Sorted, FitsTurn
<1>5. CASE SetParseErrors(g)
  <2>1. OnlyMoves(g)
    BY <1>5 DEF SetParseErrors, OnlyMoves, CacheStep, Goto, Finish, TypeInv
  <2>2. /\ pc[g] = "errors" /\ task[g].file \in Files
        /\ cache'.contents = cache.contents
        /\ cache'.ignored = cache.ignored
        /\ cache'.modules = cache.modules
        /\ store'.parsed = store.parsed
        /\ UNCHANGED <<ignoring, editor, templates, templating>>
    BY <1>1, <1>5 DEF SetParseErrors, CacheStep, AtTurn, FileLess, CacheTypes,
       StoreTypes, config, outside, runs
  <2>3. pc'[g] \in {"module", "parsed"} /\ task' = task
    BY <1>1, <1>5, <2>2 DEF SetParseErrors, CacheStep, AtTurn, FitsTurn,
       FitsOp, FitsFile, EditorOps, MovingPlaces, RestoringPlaces, Deleting,
       Parsing, Goto, Finish
  <2>4. pc'[g] # "idle" => FitsOp(pc[g], task[g])'
    BY <1>1, <2>2, <2>3, TextFacts DEF AtTurn, FitsTurn, FitsFile,
       FitsContents, FitsReload, FitsOp, ApartBut, HasContents, EditorOps,
       MovingPlaces, RestoringPlaces, Deleting, Parsing, TaskTypes,
       CacheTypes, StoreTypes
  <2>5. pc'[g] # "idle" => FitsFile(pc[g], task[g])'
    BY <1>1, <2>2, <2>3, TextFacts DEF AtTurn, FitsTurn, FitsOp, FitsContents,
       FitsReload, FitsFile, ApartBut, HasContents, MovingPlaces,
       RestoringPlaces, Deleting, Parsing, TaskTypes, CacheTypes, StoreTypes
  <2>6. pc'[g] # "idle" => FitsContents(pc[g], task[g])'
    BY <1>1, <2>2, <2>3, TextFacts DEF AtTurn, FitsTurn, FitsOp, FitsFile,
       FitsReload, FitsContents, ApartBut, HasContents, MovingPlaces,
       RestoringPlaces, Deleting, Parsing, TaskTypes, CacheTypes, StoreTypes
  <2>7. pc'[g] # "idle" => FitsReload(pc[g], task[g])'
    BY <1>1, <2>2, <2>3, TextFacts DEF AtTurn, FitsTurn, FitsOp, FitsFile,
       FitsContents, FitsReload, ApartBut, HasContents, MovingPlaces,
       RestoringPlaces, Deleting, Parsing, TaskTypes, CacheTypes, StoreTypes
  <2>8. pc'[g] # "idle" => FitsEditor(pc[g], task[g])'
    BY <1>1, <2>2, <2>3, TextFacts DEF AtTurn, FitsTurn, FitsOp, FitsFile,
       FitsContents, FitsReload, FitsEditor, Carries, ApartBut, HasContents,
       MovingPlaces, RestoringPlaces, Deleting, Parsing, TaskTypes,
       CacheTypes, StoreTypes
  <2>9. ForgetsBut(pc[g], task[g])'
    BY <1>1, <2>2, <2>3, TextFacts DEF AtTurn, FitsTurn, FitsOp, FitsFile,
       FitsContents, FitsReload, ForgetsBut, ApartBut, HasContents,
       MovingPlaces, RestoringPlaces, Deleting, Parsing, TaskTypes,
       CacheTypes, StoreTypes
  <2>10. ApartBut(pc[g], task[g])'
    BY <1>1, <2>2, <2>3, TextFacts DEF AtTurn, FitsTurn, FitsOp, FitsFile,
       FitsContents, FitsReload, ApartBut, HasContents, MovingPlaces,
       RestoringPlaces, Deleting, Parsing, TaskTypes, CacheTypes, StoreTypes
  <2>11. KeptBut(pc[g], task[g])'
    BY <1>1, <2>2, <2>3, TextFacts DEF AtTurn, FitsTurn, FitsOp, FitsFile,
       FitsContents, FitsReload, FitsEditor, Carries, KeptBut, ApartBut,
       HasContents, MovingPlaces, RestoringPlaces, Deleting, Parsing,
       TaskTypes, CacheTypes, StoreTypes
  <2> QED
    BY <1>2, <2>1, <2>2, <2>4, <2>5, <2>6, <2>7, <2>8, <2>9, <2>10,
       <2>11, StepKeepsTurns DEF Sorted, FitsTurn
<1>6. CASE SetModule(g)
  <2>1. OnlyMoves(g)
    BY <1>6 DEF SetModule, OnlyMoves, CacheStep, Goto, Finish, TypeInv
  <2>2. /\ pc[g] = "module" /\ task[g].file \in Files
        /\ cache'.contents = cache.contents
        /\ cache'.ignored = cache.ignored
        /\ cache'.modules = [cache.modules EXCEPT ![task[g].file] = task[g].text]
        /\ store'.parsed = store.parsed
        /\ UNCHANGED <<ignoring, editor, templates, templating>>
    BY <1>1, <1>6 DEF SetModule, CacheStep, AtTurn, FileLess, CacheTypes,
       StoreTypes, config, outside, runs
  <2>3. pc'[g] = "lines" /\ task' = task
    BY <1>1, <1>6, <2>2 DEF SetModule, CacheStep, AtTurn, FitsTurn, FitsOp,
       FitsFile, EditorOps, MovingPlaces, RestoringPlaces, Deleting, Parsing,
       Goto, Finish
  <2>4. pc'[g] # "idle" => FitsOp(pc[g], task[g])'
    BY <1>1, <2>2, <2>3, TextFacts DEF AtTurn, FitsTurn, FitsFile,
       FitsContents, FitsReload, FitsOp, ApartBut, HasContents, EditorOps,
       MovingPlaces, RestoringPlaces, Deleting, Parsing, TaskTypes,
       CacheTypes, StoreTypes
  <2>5. pc'[g] # "idle" => FitsFile(pc[g], task[g])'
    BY <1>1, <2>2, <2>3, TextFacts DEF AtTurn, FitsTurn, FitsOp, FitsContents,
       FitsReload, FitsFile, ApartBut, HasContents, MovingPlaces,
       RestoringPlaces, Deleting, Parsing, TaskTypes, CacheTypes, StoreTypes
  <2>6. pc'[g] # "idle" => FitsContents(pc[g], task[g])'
    BY <1>1, <2>2, <2>3, TextFacts DEF AtTurn, FitsTurn, FitsOp, FitsFile,
       FitsReload, FitsContents, ApartBut, HasContents, MovingPlaces,
       RestoringPlaces, Deleting, Parsing, TaskTypes, CacheTypes, StoreTypes
  <2>7. pc'[g] # "idle" => FitsReload(pc[g], task[g])'
    BY <1>1, <2>2, <2>3, TextFacts DEF AtTurn, FitsTurn, FitsOp, FitsFile,
       FitsContents, FitsReload, ApartBut, HasContents, MovingPlaces,
       RestoringPlaces, Deleting, Parsing, TaskTypes, CacheTypes, StoreTypes
  <2>8. pc'[g] # "idle" => FitsEditor(pc[g], task[g])'
    BY <1>1, <2>2, <2>3, TextFacts DEF AtTurn, FitsTurn, FitsOp, FitsFile,
       FitsContents, FitsReload, FitsEditor, Carries, ApartBut, HasContents,
       MovingPlaces, RestoringPlaces, Deleting, Parsing, TaskTypes,
       CacheTypes, StoreTypes
  <2>9. ForgetsBut(pc[g], task[g])'
    BY <1>1, <2>2, <2>3, TextFacts DEF AtTurn, FitsTurn, FitsOp, FitsFile,
       FitsContents, FitsReload, ForgetsBut, ApartBut, HasContents,
       MovingPlaces, RestoringPlaces, Deleting, Parsing, TaskTypes,
       CacheTypes, StoreTypes
  <2>10. ApartBut(pc[g], task[g])'
    BY <1>1, <2>2, <2>3, TextFacts DEF AtTurn, FitsTurn, FitsOp, FitsFile,
       FitsContents, FitsReload, ApartBut, HasContents, MovingPlaces,
       RestoringPlaces, Deleting, Parsing, TaskTypes, CacheTypes, StoreTypes
  <2>11. KeptBut(pc[g], task[g])'
    BY <1>1, <2>2, <2>3, TextFacts DEF AtTurn, FitsTurn, FitsOp, FitsFile,
       FitsContents, FitsReload, FitsEditor, Carries, KeptBut, ApartBut,
       HasContents, MovingPlaces, RestoringPlaces, Deleting, Parsing,
       TaskTypes, CacheTypes, StoreTypes
  <2> QED
    BY <1>2, <2>1, <2>2, <2>4, <2>5, <2>6, <2>7, <2>8, <2>9, <2>10,
       <2>11, StepKeepsTurns DEF Sorted, FitsTurn
<1>7. CASE SetLineCount(g)
  <2>1. OnlyMoves(g)
    BY <1>7 DEF SetLineCount, OnlyMoves, CacheStep, Goto, Finish, TypeInv
  <2>2. /\ pc[g] = "lines" /\ task[g].file \in Files
        /\ cache'.contents = cache.contents
        /\ cache'.ignored = cache.ignored
        /\ cache'.modules = cache.modules
        /\ store'.parsed = store.parsed
        /\ UNCHANGED <<ignoring, editor, templates, templating>>
    BY <1>1, <1>7 DEF SetLineCount, CacheStep, AtTurn, FileLess, CacheTypes,
       StoreTypes, config, outside, runs
  <2>3. pc'[g] = "putMod" /\ task' = task
    BY <1>1, <1>7, <2>2 DEF SetLineCount, CacheStep, AtTurn, FitsTurn, FitsOp,
       FitsFile, EditorOps, MovingPlaces, RestoringPlaces, Deleting, Parsing,
       Goto, Finish
  <2>4. pc'[g] # "idle" => FitsOp(pc[g], task[g])'
    BY <1>1, <2>2, <2>3, TextFacts DEF AtTurn, FitsTurn, FitsFile,
       FitsContents, FitsReload, FitsOp, ApartBut, HasContents, EditorOps,
       MovingPlaces, RestoringPlaces, Deleting, Parsing, TaskTypes,
       CacheTypes, StoreTypes
  <2>5. pc'[g] # "idle" => FitsFile(pc[g], task[g])'
    BY <1>1, <2>2, <2>3, TextFacts DEF AtTurn, FitsTurn, FitsOp, FitsContents,
       FitsReload, FitsFile, ApartBut, HasContents, MovingPlaces,
       RestoringPlaces, Deleting, Parsing, TaskTypes, CacheTypes, StoreTypes
  <2>6. pc'[g] # "idle" => FitsContents(pc[g], task[g])'
    BY <1>1, <2>2, <2>3, TextFacts DEF AtTurn, FitsTurn, FitsOp, FitsFile,
       FitsReload, FitsContents, ApartBut, HasContents, MovingPlaces,
       RestoringPlaces, Deleting, Parsing, TaskTypes, CacheTypes, StoreTypes
  <2>7. pc'[g] # "idle" => FitsReload(pc[g], task[g])'
    BY <1>1, <2>2, <2>3, TextFacts DEF AtTurn, FitsTurn, FitsOp, FitsFile,
       FitsContents, FitsReload, ApartBut, HasContents, MovingPlaces,
       RestoringPlaces, Deleting, Parsing, TaskTypes, CacheTypes, StoreTypes
  <2>8. pc'[g] # "idle" => FitsEditor(pc[g], task[g])'
    BY <1>1, <2>2, <2>3, TextFacts DEF AtTurn, FitsTurn, FitsOp, FitsFile,
       FitsContents, FitsReload, FitsEditor, Carries, ApartBut, HasContents,
       MovingPlaces, RestoringPlaces, Deleting, Parsing, TaskTypes,
       CacheTypes, StoreTypes
  <2>9. ForgetsBut(pc[g], task[g])'
    BY <1>1, <2>2, <2>3, TextFacts DEF AtTurn, FitsTurn, FitsOp, FitsFile,
       FitsContents, FitsReload, ForgetsBut, ApartBut, HasContents,
       MovingPlaces, RestoringPlaces, Deleting, Parsing, TaskTypes,
       CacheTypes, StoreTypes
  <2>10. ApartBut(pc[g], task[g])'
    BY <1>1, <2>2, <2>3, TextFacts DEF AtTurn, FitsTurn, FitsOp, FitsFile,
       FitsContents, FitsReload, ApartBut, HasContents, MovingPlaces,
       RestoringPlaces, Deleting, Parsing, TaskTypes, CacheTypes, StoreTypes
  <2>11. KeptBut(pc[g], task[g])'
    BY <1>1, <2>2, <2>3, TextFacts DEF AtTurn, FitsTurn, FitsOp, FitsFile,
       FitsContents, FitsReload, FitsEditor, Carries, KeptBut, ApartBut,
       HasContents, MovingPlaces, RestoringPlaces, Deleting, Parsing,
       TaskTypes, CacheTypes, StoreTypes
  <2> QED
    BY <1>2, <2>1, <2>2, <2>4, <2>5, <2>6, <2>7, <2>8, <2>9, <2>10,
       <2>11, StepKeepsTurns DEF Sorted, FitsTurn
<1>8. CASE PutFileMod(g)
  <2>1. OnlyMoves(g)
    BY <1>8 DEF PutFileMod, OnlyMoves, CacheStep, Goto, Finish, TypeInv
  <2>2. /\ pc[g] = "putMod" /\ task[g].file \in Files
        /\ cache'.contents = cache.contents
        /\ cache'.ignored = cache.ignored
        /\ cache'.modules = cache.modules
        /\ store'.parsed = [store.parsed EXCEPT ![task[g].file] = task[g].text]
        /\ UNCHANGED <<ignoring, editor, templates, templating>>
    BY <1>1, <1>8 DEF PutFileMod, CacheStep, AtTurn, FileLess, CacheTypes,
       StoreTypes, config, outside, runs
  <2>3. pc'[g] = "putRefs" /\ task' = task
    BY <1>1, <1>8, <2>2 DEF PutFileMod, CacheStep, AtTurn, FitsTurn, FitsOp,
       FitsFile, EditorOps, MovingPlaces, RestoringPlaces, Deleting, Parsing,
       Goto, Finish
  <2>4. pc'[g] # "idle" => FitsOp(pc[g], task[g])'
    BY <1>1, <2>2, <2>3, TextFacts DEF AtTurn, FitsTurn, FitsFile,
       FitsContents, FitsReload, FitsOp, ApartBut, HasContents, EditorOps,
       MovingPlaces, RestoringPlaces, Deleting, Parsing, TaskTypes,
       CacheTypes, StoreTypes
  <2>5. pc'[g] # "idle" => FitsFile(pc[g], task[g])'
    BY <1>1, <2>2, <2>3, TextFacts DEF AtTurn, FitsTurn, FitsOp, FitsContents,
       FitsReload, FitsFile, ApartBut, HasContents, MovingPlaces,
       RestoringPlaces, Deleting, Parsing, TaskTypes, CacheTypes, StoreTypes
  <2>6. pc'[g] # "idle" => FitsContents(pc[g], task[g])'
    BY <1>1, <2>2, <2>3, TextFacts DEF AtTurn, FitsTurn, FitsOp, FitsFile,
       FitsReload, FitsContents, ApartBut, HasContents, MovingPlaces,
       RestoringPlaces, Deleting, Parsing, TaskTypes, CacheTypes, StoreTypes
  <2>7. pc'[g] # "idle" => FitsReload(pc[g], task[g])'
    BY <1>1, <2>2, <2>3, TextFacts DEF AtTurn, FitsTurn, FitsOp, FitsFile,
       FitsContents, FitsReload, ApartBut, HasContents, MovingPlaces,
       RestoringPlaces, Deleting, Parsing, TaskTypes, CacheTypes, StoreTypes
  <2>8. pc'[g] # "idle" => FitsEditor(pc[g], task[g])'
    BY <1>1, <2>2, <2>3, TextFacts DEF AtTurn, FitsTurn, FitsOp, FitsFile,
       FitsContents, FitsReload, FitsEditor, Carries, ApartBut, HasContents,
       MovingPlaces, RestoringPlaces, Deleting, Parsing, TaskTypes,
       CacheTypes, StoreTypes
  <2>9. ForgetsBut(pc[g], task[g])'
    BY <1>1, <2>2, <2>3, TextFacts DEF AtTurn, FitsTurn, FitsOp, FitsFile,
       FitsContents, FitsReload, ForgetsBut, ApartBut, HasContents,
       MovingPlaces, RestoringPlaces, Deleting, Parsing, TaskTypes,
       CacheTypes, StoreTypes
  <2>10. ApartBut(pc[g], task[g])'
    BY <1>1, <2>2, <2>3, TextFacts DEF AtTurn, FitsTurn, FitsOp, FitsFile,
       FitsContents, FitsReload, ApartBut, HasContents, MovingPlaces,
       RestoringPlaces, Deleting, Parsing, TaskTypes, CacheTypes, StoreTypes
  <2>11. KeptBut(pc[g], task[g])'
    BY <1>1, <2>2, <2>3, TextFacts DEF AtTurn, FitsTurn, FitsOp, FitsFile,
       FitsContents, FitsReload, FitsEditor, Carries, KeptBut, ApartBut,
       HasContents, MovingPlaces, RestoringPlaces, Deleting, Parsing,
       TaskTypes, CacheTypes, StoreTypes
  <2> QED
    BY <1>2, <2>1, <2>2, <2>4, <2>5, <2>6, <2>7, <2>8, <2>9, <2>10,
       <2>11, StepKeepsTurns DEF Sorted, FitsTurn
<1>9. CASE PutFileRefs(g)
  <2>1. OnlyMoves(g)
    BY <1>9 DEF PutFileRefs, OnlyMoves, CacheStep, Goto, Finish, TypeInv
  <2>2. /\ pc[g] = "putRefs" /\ task[g].file \in Files
        /\ cache'.contents = cache.contents
        /\ cache'.ignored = cache.ignored
        /\ cache'.modules = cache.modules
        /\ store'.parsed = store.parsed
        /\ UNCHANGED <<ignoring, editor, templates, templating>>
    BY <1>1, <1>9 DEF PutFileRefs, CacheStep, AtTurn, FileLess, CacheTypes,
       StoreTypes, config, outside, runs
  <2>3. pc'[g] = "parsed" /\ task' = task
    BY <1>1, <1>9, <2>2 DEF PutFileRefs, CacheStep, AtTurn, FitsTurn, FitsOp,
       FitsFile, EditorOps, MovingPlaces, RestoringPlaces, Deleting, Parsing,
       Goto, Finish
  <2>4. pc'[g] # "idle" => FitsOp(pc[g], task[g])'
    BY <1>1, <2>2, <2>3, TextFacts DEF AtTurn, FitsTurn, FitsFile,
       FitsContents, FitsReload, FitsOp, ApartBut, HasContents, EditorOps,
       MovingPlaces, RestoringPlaces, Deleting, Parsing, TaskTypes,
       CacheTypes, StoreTypes
  <2>5. pc'[g] # "idle" => FitsFile(pc[g], task[g])'
    BY <1>1, <2>2, <2>3, TextFacts DEF AtTurn, FitsTurn, FitsOp, FitsContents,
       FitsReload, FitsFile, ApartBut, HasContents, MovingPlaces,
       RestoringPlaces, Deleting, Parsing, TaskTypes, CacheTypes, StoreTypes
  <2>6. pc'[g] # "idle" => FitsContents(pc[g], task[g])'
    BY <1>1, <2>2, <2>3, TextFacts DEF AtTurn, FitsTurn, FitsOp, FitsFile,
       FitsReload, FitsContents, ApartBut, HasContents, MovingPlaces,
       RestoringPlaces, Deleting, Parsing, TaskTypes, CacheTypes, StoreTypes
  <2>7. pc'[g] # "idle" => FitsReload(pc[g], task[g])'
    BY <1>1, <2>2, <2>3, TextFacts DEF AtTurn, FitsTurn, FitsOp, FitsFile,
       FitsContents, FitsReload, ApartBut, HasContents, MovingPlaces,
       RestoringPlaces, Deleting, Parsing, TaskTypes, CacheTypes, StoreTypes
  <2>8. pc'[g] # "idle" => FitsEditor(pc[g], task[g])'
    BY <1>1, <2>2, <2>3, TextFacts DEF AtTurn, FitsTurn, FitsOp, FitsFile,
       FitsContents, FitsReload, FitsEditor, Carries, ApartBut, HasContents,
       MovingPlaces, RestoringPlaces, Deleting, Parsing, TaskTypes,
       CacheTypes, StoreTypes
  <2>9. ForgetsBut(pc[g], task[g])'
    BY <1>1, <2>2, <2>3, TextFacts DEF AtTurn, FitsTurn, FitsOp, FitsFile,
       FitsContents, FitsReload, ForgetsBut, ApartBut, HasContents,
       MovingPlaces, RestoringPlaces, Deleting, Parsing, TaskTypes,
       CacheTypes, StoreTypes
  <2>10. ApartBut(pc[g], task[g])'
    BY <1>1, <2>2, <2>3, TextFacts DEF AtTurn, FitsTurn, FitsOp, FitsFile,
       FitsContents, FitsReload, ApartBut, HasContents, MovingPlaces,
       RestoringPlaces, Deleting, Parsing, TaskTypes, CacheTypes, StoreTypes
  <2>11. KeptBut(pc[g], task[g])'
    BY <1>1, <2>2, <2>3, TextFacts DEF AtTurn, FitsTurn, FitsOp, FitsFile,
       FitsContents, FitsReload, FitsEditor, Carries, KeptBut, ApartBut,
       HasContents, MovingPlaces, RestoringPlaces, Deleting, Parsing,
       TaskTypes, CacheTypes, StoreTypes
  <2> QED
    BY <1>2, <2>1, <2>2, <2>4, <2>5, <2>6, <2>7, <2>8, <2>9, <2>10,
       <2>11, StepKeepsTurns DEF Sorted, FitsTurn
<1>10. CASE WriteFromDisk(g)
  <2>1. OnlyMoves(g)
    BY <1>10 DEF WriteFromDisk, OnlyMoves, CacheStep, Goto, Finish, TypeInv
  <2>2. /\ pc[g] = "write" /\ task[g].file \in Files
        /\ cache'.contents = [cache.contents EXCEPT ![task[g].file] = task[g].text]
        /\ cache'.ignored = cache.ignored
        /\ cache'.modules = cache.modules
        /\ store'.parsed = store.parsed
        /\ UNCHANGED <<ignoring, editor, templates, templating>>
    BY <1>1, <1>10 DEF WriteFromDisk, Target, AfterUpdate, CacheStep, AtTurn,
       FitsTurn, FitsOp, FileLess, CacheTypes, StoreTypes, config, outside,
       runs
  <2>3. pc'[g] = "parse" /\ task' = task
    BY <1>1, <1>10, <2>2 DEF WriteFromDisk, Target, AfterUpdate, CacheStep,
       AtTurn, FitsTurn, FitsOp, FitsFile, EditorOps, MovingPlaces,
       RestoringPlaces, Deleting, Parsing, Goto, Finish
  <2>4. pc'[g] # "idle" => FitsOp(pc[g], task[g])'
    BY <1>1, <2>2, <2>3, TextFacts DEF AtTurn, FitsTurn, FitsFile,
       FitsContents, FitsReload, FitsOp, ApartBut, HasContents, EditorOps,
       MovingPlaces, RestoringPlaces, Deleting, Parsing, TaskTypes,
       CacheTypes, StoreTypes
  <2>5. pc'[g] # "idle" => FitsFile(pc[g], task[g])'
    BY <1>1, <2>2, <2>3, TextFacts DEF AtTurn, FitsTurn, FitsOp, FitsContents,
       FitsReload, FitsFile, ApartBut, HasContents, MovingPlaces,
       RestoringPlaces, Deleting, Parsing, TaskTypes, CacheTypes, StoreTypes
  <2>6. pc'[g] # "idle" => FitsContents(pc[g], task[g])'
    BY <1>1, <2>2, <2>3, TextFacts DEF AtTurn, FitsTurn, FitsOp, FitsFile,
       FitsReload, FitsContents, ApartBut, HasContents, MovingPlaces,
       RestoringPlaces, Deleting, Parsing, TaskTypes, CacheTypes, StoreTypes
  <2>7. pc'[g] # "idle" => FitsReload(pc[g], task[g])'
    BY <1>1, <2>2, <2>3, TextFacts DEF AtTurn, FitsTurn, FitsOp, FitsFile,
       FitsContents, FitsReload, ApartBut, HasContents, MovingPlaces,
       RestoringPlaces, Deleting, Parsing, TaskTypes, CacheTypes, StoreTypes
  <2>8. pc'[g] # "idle" => FitsEditor(pc[g], task[g])'
    BY <1>1, <2>2, <2>3, TextFacts DEF AtTurn, FitsTurn, FitsOp, FitsFile,
       FitsContents, FitsReload, FitsEditor, Carries, ApartBut, HasContents,
       MovingPlaces, RestoringPlaces, Deleting, Parsing, TaskTypes,
       CacheTypes, StoreTypes
  <2>9. ForgetsBut(pc[g], task[g])'
    BY <1>1, <2>2, <2>3, TextFacts DEF AtTurn, FitsTurn, FitsOp, FitsFile,
       FitsContents, FitsReload, ForgetsBut, ApartBut, HasContents,
       MovingPlaces, RestoringPlaces, Deleting, Parsing, TaskTypes,
       CacheTypes, StoreTypes
  <2>10. ApartBut(pc[g], task[g])'
    BY <1>1, <2>2, <2>3, TextFacts DEF AtTurn, FitsTurn, FitsOp, FitsFile,
       FitsContents, FitsReload, ApartBut, HasContents, MovingPlaces,
       RestoringPlaces, Deleting, Parsing, TaskTypes, CacheTypes, StoreTypes
  <2>11. KeptBut(pc[g], task[g])'
    BY <1>1, <2>2, <2>3, TextFacts DEF AtTurn, FitsTurn, FitsOp, FitsFile,
       FitsContents, FitsReload, FitsEditor, Carries, KeptBut, ApartBut,
       HasContents, MovingPlaces, RestoringPlaces, Deleting, Parsing,
       TaskTypes, CacheTypes, StoreTypes
  <2> QED
    BY <1>2, <2>1, <2>2, <2>4, <2>5, <2>6, <2>7, <2>8, <2>9, <2>10,
       <2>11, StepKeepsTurns DEF Sorted, FitsTurn
<1>11. CASE DeleteContents(g)
  <2>1. OnlyMoves(g)
    BY <1>11 DEF DeleteContents, OnlyMoves, CacheStep, Goto, Finish, TypeInv
  <2>2. /\ pc[g] = "delContents" /\ task[g].file \in Files
        /\ cache'.contents = [cache.contents EXCEPT ![task[g].file] = Nothing]
        /\ cache'.ignored = cache.ignored
        /\ cache'.modules = cache.modules
        /\ store'.parsed = store.parsed
        /\ UNCHANGED <<ignoring, editor, templates, templating>>
    BY <1>1, <1>11 DEF DeleteContents, CacheStep, AtTurn, FileLess,
       CacheTypes, StoreTypes, config, outside, runs
  <2>3. pc'[g] = "delIgnored" /\ task' = task
    BY <1>1, <1>11, <2>2 DEF DeleteContents, CacheStep, AtTurn, FitsTurn,
       FitsOp, FitsFile, EditorOps, MovingPlaces, RestoringPlaces, Deleting,
       Parsing, Goto, Finish
  <2>4. pc'[g] # "idle" => FitsOp(pc[g], task[g])'
    BY <1>1, <2>2, <2>3, TextFacts DEF AtTurn, FitsTurn, FitsFile,
       FitsContents, FitsReload, FitsOp, ApartBut, HasContents, EditorOps,
       MovingPlaces, RestoringPlaces, Deleting, Parsing, TaskTypes,
       CacheTypes, StoreTypes
  <2>5. pc'[g] # "idle" => FitsFile(pc[g], task[g])'
    BY <1>1, <2>2, <2>3, TextFacts DEF AtTurn, FitsTurn, FitsOp, FitsContents,
       FitsReload, FitsFile, ApartBut, HasContents, MovingPlaces,
       RestoringPlaces, Deleting, Parsing, TaskTypes, CacheTypes, StoreTypes
  <2>6. pc'[g] # "idle" => FitsContents(pc[g], task[g])'
    BY <1>1, <2>2, <2>3, TextFacts DEF AtTurn, FitsTurn, FitsOp, FitsFile,
       FitsReload, FitsContents, ApartBut, HasContents, MovingPlaces,
       RestoringPlaces, Deleting, Parsing, TaskTypes, CacheTypes, StoreTypes
  <2>7. pc'[g] # "idle" => FitsReload(pc[g], task[g])'
    BY <1>1, <2>2, <2>3, TextFacts DEF AtTurn, FitsTurn, FitsOp, FitsFile,
       FitsContents, FitsReload, ApartBut, HasContents, MovingPlaces,
       RestoringPlaces, Deleting, Parsing, TaskTypes, CacheTypes, StoreTypes
  <2>8. pc'[g] # "idle" => FitsEditor(pc[g], task[g])'
    BY <1>1, <2>2, <2>3, TextFacts DEF AtTurn, FitsTurn, FitsOp, FitsFile,
       FitsContents, FitsReload, FitsEditor, Carries, KeptBut, ApartBut,
       HasContents, MovingPlaces, RestoringPlaces, Deleting, Parsing,
       TaskTypes, CacheTypes, StoreTypes
  <2>9. ForgetsBut(pc[g], task[g])'
    BY <1>1, <2>2, <2>3, TextFacts DEF AtTurn, FitsTurn, FitsOp, FitsFile,
       FitsContents, FitsReload, ForgetsBut, ApartBut, HasContents,
       MovingPlaces, RestoringPlaces, Deleting, Parsing, TaskTypes,
       CacheTypes, StoreTypes
  <2>10. ApartBut(pc[g], task[g])'
    BY <1>1, <2>2, <2>3, TextFacts DEF AtTurn, FitsTurn, FitsOp, FitsFile,
       FitsContents, FitsReload, ApartBut, HasContents, MovingPlaces,
       RestoringPlaces, Deleting, Parsing, TaskTypes, CacheTypes, StoreTypes
  <2>11. KeptBut(pc[g], task[g])'
    BY <1>1, <2>2, <2>3, TextFacts DEF AtTurn, FitsTurn, FitsOp, FitsFile,
       FitsContents, FitsReload, FitsEditor, Carries, KeptBut, ApartBut,
       HasContents, MovingPlaces, RestoringPlaces, Deleting, Parsing,
       TaskTypes, CacheTypes, StoreTypes
  <2> QED
    BY <1>2, <2>1, <2>2, <2>4, <2>5, <2>6, <2>7, <2>8, <2>9, <2>10,
       <2>11, StepKeepsTurns DEF Sorted, FitsTurn
<1>12. CASE DeleteIgnored(g)
  <2>1. OnlyMoves(g)
    BY <1>12 DEF DeleteIgnored, OnlyMoves, CacheStep, Goto, Finish, TypeInv
  <2>2. /\ pc[g] = "delIgnored" /\ task[g].file \in Files
        /\ cache'.contents = cache.contents
        /\ cache'.ignored = [cache.ignored EXCEPT ![task[g].file] = Nothing]
        /\ cache'.modules = cache.modules
        /\ store'.parsed = store.parsed
        /\ UNCHANGED <<ignoring, editor, templates, templating>>
    BY <1>1, <1>12 DEF DeleteIgnored, CacheStep, AtTurn, FileLess, CacheTypes,
       StoreTypes, config, outside, runs
  <2>3. pc'[g] = "delModule" /\ task' = task
    BY <1>1, <1>12, <2>2 DEF DeleteIgnored, CacheStep, AtTurn, FitsTurn,
       FitsOp, FitsFile, EditorOps, MovingPlaces, RestoringPlaces, Deleting,
       Parsing, Goto, Finish
  <2>4. pc'[g] # "idle" => FitsOp(pc[g], task[g])'
    BY <1>1, <2>2, <2>3, TextFacts DEF AtTurn, FitsTurn, FitsFile,
       FitsContents, FitsReload, FitsOp, ApartBut, HasContents, EditorOps,
       MovingPlaces, RestoringPlaces, Deleting, Parsing, TaskTypes,
       CacheTypes, StoreTypes
  <2>5. pc'[g] # "idle" => FitsFile(pc[g], task[g])'
    BY <1>1, <2>2, <2>3, TextFacts DEF AtTurn, FitsTurn, FitsOp, FitsContents,
       FitsReload, FitsFile, ApartBut, HasContents, MovingPlaces,
       RestoringPlaces, Deleting, Parsing, TaskTypes, CacheTypes, StoreTypes
  <2>6. pc'[g] # "idle" => FitsContents(pc[g], task[g])'
    BY <1>1, <2>2, <2>3, TextFacts DEF AtTurn, FitsTurn, FitsOp, FitsFile,
       FitsReload, FitsContents, ApartBut, HasContents, MovingPlaces,
       RestoringPlaces, Deleting, Parsing, TaskTypes, CacheTypes, StoreTypes
  <2>7. pc'[g] # "idle" => FitsReload(pc[g], task[g])'
    BY <1>1, <2>2, <2>3, TextFacts DEF AtTurn, FitsTurn, FitsOp, FitsFile,
       FitsContents, FitsReload, ApartBut, HasContents, MovingPlaces,
       RestoringPlaces, Deleting, Parsing, TaskTypes, CacheTypes, StoreTypes
  <2>8. pc'[g] # "idle" => FitsEditor(pc[g], task[g])'
    BY <1>1, <2>2, <2>3, TextFacts DEF AtTurn, FitsTurn, FitsOp, FitsFile,
       FitsContents, FitsReload, FitsEditor, Carries, ApartBut, HasContents,
       MovingPlaces, RestoringPlaces, Deleting, Parsing, TaskTypes,
       CacheTypes, StoreTypes
  <2>9. ForgetsBut(pc[g], task[g])'
    BY <1>1, <2>2, <2>3, TextFacts DEF AtTurn, FitsTurn, FitsOp, FitsFile,
       FitsContents, FitsReload, ForgetsBut, ApartBut, HasContents,
       MovingPlaces, RestoringPlaces, Deleting, Parsing, TaskTypes,
       CacheTypes, StoreTypes
  <2>10. ApartBut(pc[g], task[g])'
    BY <1>1, <2>2, <2>3, TextFacts DEF AtTurn, FitsTurn, FitsOp, FitsFile,
       FitsContents, FitsReload, ApartBut, HasContents, MovingPlaces,
       RestoringPlaces, Deleting, Parsing, TaskTypes, CacheTypes, StoreTypes
  <2>11. KeptBut(pc[g], task[g])'
    BY <1>1, <2>2, <2>3, TextFacts DEF AtTurn, FitsTurn, FitsOp, FitsFile,
       FitsContents, FitsReload, FitsEditor, Carries, KeptBut, ApartBut,
       HasContents, MovingPlaces, RestoringPlaces, Deleting, Parsing,
       TaskTypes, CacheTypes, StoreTypes
  <2> QED
    BY <1>2, <2>1, <2>2, <2>4, <2>5, <2>6, <2>7, <2>8, <2>9, <2>10,
       <2>11, StepKeepsTurns DEF Sorted, FitsTurn
<1>13. CASE DeleteModule(g)
  <2>1. OnlyMoves(g)
    BY <1>13 DEF DeleteModule, OnlyMoves, CacheStep, Goto, Finish, TypeInv
  <2>2. /\ pc[g] = "delModule" /\ task[g].file \in Files
        /\ cache'.contents = cache.contents
        /\ cache'.ignored = cache.ignored
        /\ cache'.modules = [cache.modules EXCEPT ![task[g].file] = Nothing]
        /\ store'.parsed = store.parsed
        /\ UNCHANGED <<ignoring, editor, templates, templating>>
    BY <1>1, <1>13 DEF DeleteModule, CacheStep, AtTurn, FileLess, CacheTypes,
       StoreTypes, config, outside, runs
  <2>3. pc'[g] = "delDiags" /\ task' = task
    BY <1>1, <1>13, <2>2 DEF DeleteModule, CacheStep, AtTurn, FitsTurn,
       FitsOp, FitsFile, EditorOps, MovingPlaces, RestoringPlaces, Deleting,
       Parsing, Goto, Finish
  <2>4. pc'[g] # "idle" => FitsOp(pc[g], task[g])'
    BY <1>1, <2>2, <2>3, TextFacts DEF AtTurn, FitsTurn, FitsFile,
       FitsContents, FitsReload, FitsOp, ApartBut, HasContents, EditorOps,
       MovingPlaces, RestoringPlaces, Deleting, Parsing, TaskTypes,
       CacheTypes, StoreTypes
  <2>5. pc'[g] # "idle" => FitsFile(pc[g], task[g])'
    BY <1>1, <2>2, <2>3, TextFacts DEF AtTurn, FitsTurn, FitsOp, FitsContents,
       FitsReload, FitsFile, ApartBut, HasContents, MovingPlaces,
       RestoringPlaces, Deleting, Parsing, TaskTypes, CacheTypes, StoreTypes
  <2>6. pc'[g] # "idle" => FitsContents(pc[g], task[g])'
    BY <1>1, <2>2, <2>3, TextFacts DEF AtTurn, FitsTurn, FitsOp, FitsFile,
       FitsReload, FitsContents, ApartBut, HasContents, MovingPlaces,
       RestoringPlaces, Deleting, Parsing, TaskTypes, CacheTypes, StoreTypes
  <2>7. pc'[g] # "idle" => FitsReload(pc[g], task[g])'
    BY <1>1, <2>2, <2>3, TextFacts DEF AtTurn, FitsTurn, FitsOp, FitsFile,
       FitsContents, FitsReload, ApartBut, HasContents, MovingPlaces,
       RestoringPlaces, Deleting, Parsing, TaskTypes, CacheTypes, StoreTypes
  <2>8. pc'[g] # "idle" => FitsEditor(pc[g], task[g])'
    BY <1>1, <2>2, <2>3, TextFacts DEF AtTurn, FitsTurn, FitsOp, FitsFile,
       FitsContents, FitsReload, FitsEditor, Carries, ApartBut, HasContents,
       MovingPlaces, RestoringPlaces, Deleting, Parsing, TaskTypes,
       CacheTypes, StoreTypes
  <2>9. ForgetsBut(pc[g], task[g])'
    BY <1>1, <2>2, <2>3, TextFacts DEF AtTurn, FitsTurn, FitsOp, FitsFile,
       FitsContents, FitsReload, ForgetsBut, ApartBut, HasContents,
       MovingPlaces, RestoringPlaces, Deleting, Parsing, TaskTypes,
       CacheTypes, StoreTypes
  <2>10. ApartBut(pc[g], task[g])'
    BY <1>1, <2>2, <2>3, TextFacts DEF AtTurn, FitsTurn, FitsOp, FitsFile,
       FitsContents, FitsReload, ApartBut, HasContents, MovingPlaces,
       RestoringPlaces, Deleting, Parsing, TaskTypes, CacheTypes, StoreTypes
  <2>11. KeptBut(pc[g], task[g])'
    BY <1>1, <2>2, <2>3, TextFacts DEF AtTurn, FitsTurn, FitsOp, FitsFile,
       FitsContents, FitsReload, FitsEditor, Carries, KeptBut, ApartBut,
       HasContents, MovingPlaces, RestoringPlaces, Deleting, Parsing,
       TaskTypes, CacheTypes, StoreTypes
  <2> QED
    BY <1>2, <2>1, <2>2, <2>4, <2>5, <2>6, <2>7, <2>8, <2>9, <2>10,
       <2>11, StepKeepsTurns DEF Sorted, FitsTurn
<1>14. CASE DeleteDiagnostics(g)
  <2>1. OnlyMoves(g)
    BY <1>14 DEF DeleteDiagnostics, OnlyMoves, CacheStep, Goto, Finish,
       TypeInv
  <2>2. /\ pc[g] = "delDiags" /\ task[g].file \in Files
        /\ cache'.contents = cache.contents
        /\ cache'.ignored = cache.ignored
        /\ cache'.modules = cache.modules
        /\ store'.parsed = store.parsed
        /\ UNCHANGED <<ignoring, editor, templates, templating>>
    BY <1>1, <1>14 DEF DeleteDiagnostics, CacheStep, AtTurn, FileLess,
       CacheTypes, StoreTypes, config, outside, runs
  <2>3. pc'[g] = "delErrors" /\ task' = task
    BY <1>1, <1>14, <2>2 DEF DeleteDiagnostics, CacheStep, AtTurn, FitsTurn,
       FitsOp, FitsFile, EditorOps, MovingPlaces, RestoringPlaces, Deleting,
       Parsing, Goto, Finish
  <2>4. pc'[g] # "idle" => FitsOp(pc[g], task[g])'
    BY <1>1, <2>2, <2>3, TextFacts DEF AtTurn, FitsTurn, FitsFile,
       FitsContents, FitsReload, FitsOp, ApartBut, HasContents, EditorOps,
       MovingPlaces, RestoringPlaces, Deleting, Parsing, TaskTypes,
       CacheTypes, StoreTypes
  <2>5. pc'[g] # "idle" => FitsFile(pc[g], task[g])'
    BY <1>1, <2>2, <2>3, TextFacts DEF AtTurn, FitsTurn, FitsOp, FitsContents,
       FitsReload, FitsFile, ApartBut, HasContents, MovingPlaces,
       RestoringPlaces, Deleting, Parsing, TaskTypes, CacheTypes, StoreTypes
  <2>6. pc'[g] # "idle" => FitsContents(pc[g], task[g])'
    BY <1>1, <2>2, <2>3, TextFacts DEF AtTurn, FitsTurn, FitsOp, FitsFile,
       FitsReload, FitsContents, ApartBut, HasContents, MovingPlaces,
       RestoringPlaces, Deleting, Parsing, TaskTypes, CacheTypes, StoreTypes
  <2>7. pc'[g] # "idle" => FitsReload(pc[g], task[g])'
    BY <1>1, <2>2, <2>3, TextFacts DEF AtTurn, FitsTurn, FitsOp, FitsFile,
       FitsContents, FitsReload, ApartBut, HasContents, MovingPlaces,
       RestoringPlaces, Deleting, Parsing, TaskTypes, CacheTypes, StoreTypes
  <2>8. pc'[g] # "idle" => FitsEditor(pc[g], task[g])'
    BY <1>1, <2>2, <2>3, TextFacts DEF AtTurn, FitsTurn, FitsOp, FitsFile,
       FitsContents, FitsReload, FitsEditor, Carries, ApartBut, HasContents,
       MovingPlaces, RestoringPlaces, Deleting, Parsing, TaskTypes,
       CacheTypes, StoreTypes
  <2>9. ForgetsBut(pc[g], task[g])'
    BY <1>1, <2>2, <2>3, TextFacts DEF AtTurn, FitsTurn, FitsOp, FitsFile,
       FitsContents, FitsReload, ForgetsBut, ApartBut, HasContents,
       MovingPlaces, RestoringPlaces, Deleting, Parsing, TaskTypes,
       CacheTypes, StoreTypes
  <2>10. ApartBut(pc[g], task[g])'
    BY <1>1, <2>2, <2>3, TextFacts DEF AtTurn, FitsTurn, FitsOp, FitsFile,
       FitsContents, FitsReload, ApartBut, HasContents, MovingPlaces,
       RestoringPlaces, Deleting, Parsing, TaskTypes, CacheTypes, StoreTypes
  <2>11. KeptBut(pc[g], task[g])'
    BY <1>1, <2>2, <2>3, TextFacts DEF AtTurn, FitsTurn, FitsOp, FitsFile,
       FitsContents, FitsReload, FitsEditor, Carries, KeptBut, ApartBut,
       HasContents, MovingPlaces, RestoringPlaces, Deleting, Parsing,
       TaskTypes, CacheTypes, StoreTypes
  <2> QED
    BY <1>2, <2>1, <2>2, <2>4, <2>5, <2>6, <2>7, <2>8, <2>9, <2>10,
       <2>11, StepKeepsTurns DEF Sorted, FitsTurn
<1>15. CASE DeleteParseErrors(g)
  <2>1. OnlyMoves(g)
    BY <1>15 DEF DeleteParseErrors, OnlyMoves, CacheStep, Goto, Finish,
       TypeInv
  <2>2. /\ pc[g] = "delErrors" /\ task[g].file \in Files
        /\ cache'.contents = cache.contents
        /\ cache'.ignored = cache.ignored
        /\ cache'.modules = cache.modules
        /\ store'.parsed = store.parsed
        /\ UNCHANGED <<ignoring, editor, templates, templating>>
    BY <1>1, <1>15 DEF DeleteParseErrors, CacheStep, AtTurn, FileLess,
       CacheTypes, StoreTypes, config, outside, runs
  <2>3. pc'[g] = "delLines" /\ task' = task
    BY <1>1, <1>15, <2>2 DEF DeleteParseErrors, CacheStep, AtTurn, FitsTurn,
       FitsOp, FitsFile, EditorOps, MovingPlaces, RestoringPlaces, Deleting,
       Parsing, Goto, Finish
  <2>4. pc'[g] # "idle" => FitsOp(pc[g], task[g])'
    BY <1>1, <2>2, <2>3, TextFacts DEF AtTurn, FitsTurn, FitsFile,
       FitsContents, FitsReload, FitsOp, ApartBut, HasContents, EditorOps,
       MovingPlaces, RestoringPlaces, Deleting, Parsing, TaskTypes,
       CacheTypes, StoreTypes
  <2>5. pc'[g] # "idle" => FitsFile(pc[g], task[g])'
    BY <1>1, <2>2, <2>3, TextFacts DEF AtTurn, FitsTurn, FitsOp, FitsContents,
       FitsReload, FitsFile, ApartBut, HasContents, MovingPlaces,
       RestoringPlaces, Deleting, Parsing, TaskTypes, CacheTypes, StoreTypes
  <2>6. pc'[g] # "idle" => FitsContents(pc[g], task[g])'
    BY <1>1, <2>2, <2>3, TextFacts DEF AtTurn, FitsTurn, FitsOp, FitsFile,
       FitsReload, FitsContents, ApartBut, HasContents, MovingPlaces,
       RestoringPlaces, Deleting, Parsing, TaskTypes, CacheTypes, StoreTypes
  <2>7. pc'[g] # "idle" => FitsReload(pc[g], task[g])'
    BY <1>1, <2>2, <2>3, TextFacts DEF AtTurn, FitsTurn, FitsOp, FitsFile,
       FitsContents, FitsReload, ApartBut, HasContents, MovingPlaces,
       RestoringPlaces, Deleting, Parsing, TaskTypes, CacheTypes, StoreTypes
  <2>8. pc'[g] # "idle" => FitsEditor(pc[g], task[g])'
    BY <1>1, <2>2, <2>3, TextFacts DEF AtTurn, FitsTurn, FitsOp, FitsFile,
       FitsContents, FitsReload, FitsEditor, Carries, ApartBut, HasContents,
       MovingPlaces, RestoringPlaces, Deleting, Parsing, TaskTypes,
       CacheTypes, StoreTypes
  <2>9. ForgetsBut(pc[g], task[g])'
    BY <1>1, <2>2, <2>3, TextFacts DEF AtTurn, FitsTurn, FitsOp, FitsFile,
       FitsContents, FitsReload, ForgetsBut, ApartBut, HasContents,
       MovingPlaces, RestoringPlaces, Deleting, Parsing, TaskTypes,
       CacheTypes, StoreTypes
  <2>10. ApartBut(pc[g], task[g])'
    BY <1>1, <2>2, <2>3, TextFacts DEF AtTurn, FitsTurn, FitsOp, FitsFile,
       FitsContents, FitsReload, ApartBut, HasContents, MovingPlaces,
       RestoringPlaces, Deleting, Parsing, TaskTypes, CacheTypes, StoreTypes
  <2>11. KeptBut(pc[g], task[g])'
    BY <1>1, <2>2, <2>3, TextFacts DEF AtTurn, FitsTurn, FitsOp, FitsFile,
       FitsContents, FitsReload, FitsEditor, Carries, KeptBut, ApartBut,
       HasContents, MovingPlaces, RestoringPlaces, Deleting, Parsing,
       TaskTypes, CacheTypes, StoreTypes
  <2> QED
    BY <1>2, <2>1, <2>2, <2>4, <2>5, <2>6, <2>7, <2>8, <2>9, <2>10,
       <2>11, StepKeepsTurns DEF Sorted, FitsTurn
<1>16. CASE DeleteLineCount(g)
  <2>1. OnlyMoves(g)
    BY <1>16 DEF DeleteLineCount, OnlyMoves, CacheStep, Goto, Finish, TypeInv
  <2>2. /\ pc[g] = "delLines" /\ task[g].file \in Files
        /\ cache'.contents = cache.contents
        /\ cache'.ignored = cache.ignored
        /\ cache'.modules = cache.modules
        /\ store'.parsed = store.parsed
        /\ UNCHANGED <<ignoring, editor, templates, templating>>
    BY <1>1, <1>16 DEF DeleteLineCount, CacheStep, AtTurn, FileLess,
       CacheTypes, StoreTypes, config, outside, runs
  <2>3. /\ task[g].op = "reload" => pc'[g] = "ignore" /\ task' = task
        /\ task[g].op # "reload" => pc'[g] = "idle"
    BY <1>1, <1>16, <2>2 DEF DeleteLineCount, CacheStep, AtTurn, FitsTurn,
       FitsOp, FitsFile, EditorOps, MovingPlaces, RestoringPlaces, Deleting,
       Parsing, Goto, Finish
  <2>4. pc'[g] # "idle" => FitsOp(pc[g], task[g])'
    BY <1>1, <2>2, <2>3, TextFacts DEF AtTurn, FitsTurn, FitsFile,
       FitsContents, FitsReload, FitsOp, ApartBut, HasContents, EditorOps,
       MovingPlaces, RestoringPlaces, Deleting, Parsing, TaskTypes,
       CacheTypes, StoreTypes
  <2>5. pc'[g] # "idle" => FitsFile(pc[g], task[g])'
    BY <1>1, <2>2, <2>3, TextFacts DEF AtTurn, FitsTurn, FitsOp, FitsContents,
       FitsReload, FitsFile, ApartBut, HasContents, MovingPlaces,
       RestoringPlaces, Deleting, Parsing, TaskTypes, CacheTypes, StoreTypes
  <2>6. pc'[g] # "idle" => FitsContents(pc[g], task[g])'
    BY <1>1, <2>2, <2>3, TextFacts DEF AtTurn, FitsTurn, FitsOp, FitsFile,
       FitsReload, FitsContents, ApartBut, HasContents, MovingPlaces,
       RestoringPlaces, Deleting, Parsing, TaskTypes, CacheTypes, StoreTypes
  <2>7. pc'[g] # "idle" => FitsReload(pc[g], task[g])'
    BY <1>1, <2>2, <2>3, TextFacts DEF AtTurn, FitsTurn, FitsOp, FitsFile,
       FitsContents, FitsReload, ApartBut, HasContents, MovingPlaces,
       RestoringPlaces, Deleting, Parsing, TaskTypes, CacheTypes, StoreTypes
  <2>8. pc'[g] # "idle" => FitsEditor(pc[g], task[g])'
    BY <1>1, <2>2, <2>3, TextFacts DEF AtTurn, FitsTurn, FitsOp, FitsFile,
       FitsContents, FitsReload, FitsEditor, Carries, ApartBut, HasContents,
       MovingPlaces, RestoringPlaces, Deleting, Parsing, TaskTypes,
       CacheTypes, StoreTypes
  <2>9. ForgetsBut(pc[g], task[g])'
    BY <1>1, <2>2, <2>3, TextFacts DEF AtTurn, FitsTurn, FitsOp, FitsFile,
       FitsContents, FitsReload, ForgetsBut, ApartBut, HasContents,
       MovingPlaces, RestoringPlaces, Deleting, Parsing, TaskTypes,
       CacheTypes, StoreTypes
  <2>10. ApartBut(pc[g], task[g])'
    BY <1>1, <2>2, <2>3, TextFacts DEF AtTurn, FitsTurn, FitsOp, FitsFile,
       FitsContents, FitsReload, ApartBut, HasContents, MovingPlaces,
       RestoringPlaces, Deleting, Parsing, TaskTypes, CacheTypes, StoreTypes
  <2>11. KeptBut(pc[g], task[g])'
    BY <1>1, <2>2, <2>3, TextFacts DEF AtTurn, FitsTurn, FitsOp, FitsFile,
       FitsContents, FitsReload, FitsEditor, Carries, KeptBut, ApartBut,
       HasContents, MovingPlaces, RestoringPlaces, Deleting, Parsing,
       TaskTypes, CacheTypes, StoreTypes
  <2> QED
    BY <1>2, <2>1, <2>2, <2>4, <2>5, <2>6, <2>7, <2>8, <2>9, <2>10,
       <2>11, StepKeepsTurns DEF Sorted, FitsTurn
<1>17. CASE RemoveFileMod(g)
  <2>1. OnlyMoves(g)
    BY <1>17 DEF RemoveFileMod, OnlyMoves, CacheStep, Goto, Finish, TypeInv
  <2>2. /\ pc[g] = "removeMod" /\ task[g].file \in Files
        /\ cache'.contents = cache.contents
        /\ cache'.ignored = cache.ignored
        /\ cache'.modules = cache.modules
        /\ store'.parsed = [store.parsed EXCEPT ![task[g].file] = Nothing]
        /\ UNCHANGED <<ignoring, editor, templates, templating>>
    BY <1>1, <1>17 DEF RemoveFileMod, CacheStep, AtTurn, FileLess, CacheTypes,
       StoreTypes, config, outside, runs
  <2>3. pc'[g] = "move" /\ task' = task
    BY <1>1, <1>17, <2>2 DEF RemoveFileMod, CacheStep, AtTurn, FitsTurn,
       FitsOp, FitsFile, EditorOps, MovingPlaces, RestoringPlaces, Deleting,
       Parsing, Goto, Finish
  <2>4. pc'[g] # "idle" => FitsOp(pc[g], task[g])'
    BY <1>1, <2>2, <2>3, TextFacts DEF AtTurn, FitsTurn, FitsFile,
       FitsContents, FitsReload, FitsOp, ApartBut, HasContents, EditorOps,
       MovingPlaces, RestoringPlaces, Deleting, Parsing, TaskTypes,
       CacheTypes, StoreTypes
  <2>5. pc'[g] # "idle" => FitsFile(pc[g], task[g])'
    BY <1>1, <2>2, <2>3, TextFacts DEF AtTurn, FitsTurn, FitsOp, FitsContents,
       FitsReload, FitsFile, ApartBut, HasContents, MovingPlaces,
       RestoringPlaces, Deleting, Parsing, TaskTypes, CacheTypes, StoreTypes
  <2>6. pc'[g] # "idle" => FitsContents(pc[g], task[g])'
    BY <1>1, <2>2, <2>3, TextFacts DEF AtTurn, FitsTurn, FitsOp, FitsFile,
       FitsReload, FitsContents, ApartBut, HasContents, MovingPlaces,
       RestoringPlaces, Deleting, Parsing, TaskTypes, CacheTypes, StoreTypes
  <2>7. pc'[g] # "idle" => FitsReload(pc[g], task[g])'
    BY <1>1, <2>2, <2>3, TextFacts DEF AtTurn, FitsTurn, FitsOp, FitsFile,
       FitsContents, FitsReload, ApartBut, HasContents, MovingPlaces,
       RestoringPlaces, Deleting, Parsing, TaskTypes, CacheTypes, StoreTypes
  <2>8. pc'[g] # "idle" => FitsEditor(pc[g], task[g])'
    BY <1>1, <2>2, <2>3, TextFacts DEF AtTurn, FitsTurn, FitsOp, FitsFile,
       FitsContents, FitsReload, FitsEditor, Carries, ApartBut, HasContents,
       MovingPlaces, RestoringPlaces, Deleting, Parsing, TaskTypes,
       CacheTypes, StoreTypes
  <2>9. ForgetsBut(pc[g], task[g])'
    BY <1>1, <2>2, <2>3, TextFacts DEF AtTurn, FitsTurn, FitsOp, FitsFile,
       FitsContents, FitsReload, ForgetsBut, ApartBut, HasContents,
       MovingPlaces, RestoringPlaces, Deleting, Parsing, TaskTypes,
       CacheTypes, StoreTypes
  <2>10. ApartBut(pc[g], task[g])'
    BY <1>1, <2>2, <2>3, TextFacts DEF AtTurn, FitsTurn, FitsOp, FitsFile,
       FitsContents, FitsReload, ApartBut, HasContents, MovingPlaces,
       RestoringPlaces, Deleting, Parsing, TaskTypes, CacheTypes, StoreTypes
  <2>11. KeptBut(pc[g], task[g])'
    BY <1>1, <2>2, <2>3, TextFacts DEF AtTurn, FitsTurn, FitsOp, FitsFile,
       FitsContents, FitsReload, FitsEditor, Carries, KeptBut, ApartBut,
       HasContents, MovingPlaces, RestoringPlaces, Deleting, Parsing,
       TaskTypes, CacheTypes, StoreTypes
  <2> QED
    BY <1>2, <2>1, <2>2, <2>4, <2>5, <2>6, <2>7, <2>8, <2>9, <2>10,
       <2>11, StepKeepsTurns DEF Sorted, FitsTurn
<1>18. CASE ClearIgnored(g)
  <2>1. OnlyMoves(g)
    BY <1>18 DEF ClearIgnored, OnlyMoves, CacheStep, Goto, Finish, TypeInv
  <2>2. /\ pc[g] = "clearIgnored" /\ task[g].file \in Files
        /\ cache'.contents = cache.contents
        /\ cache'.ignored = [cache.ignored EXCEPT ![task[g].file] = Nothing]
        /\ cache'.modules = cache.modules
        /\ store'.parsed = store.parsed
        /\ UNCHANGED <<ignoring, editor, templates, templating>>
    BY <1>1, <1>18 DEF ClearIgnored, CacheStep, AtTurn, FileLess, CacheTypes,
       StoreTypes, config, outside, runs
  <2>3. pc'[g] = "restoring" /\ task' = task
    BY <1>1, <1>18, <2>2 DEF ClearIgnored, CacheStep, AtTurn, FitsTurn,
       FitsOp, FitsFile, EditorOps, MovingPlaces, RestoringPlaces, Deleting,
       Parsing, Goto, Finish
  <2>4. pc'[g] # "idle" => FitsOp(pc[g], task[g])'
    BY <1>1, <2>2, <2>3, TextFacts DEF AtTurn, FitsTurn, FitsFile,
       FitsContents, FitsReload, FitsOp, ApartBut, HasContents, EditorOps,
       MovingPlaces, RestoringPlaces, Deleting, Parsing, TaskTypes,
       CacheTypes, StoreTypes
  <2>5. pc'[g] # "idle" => FitsFile(pc[g], task[g])'
    BY <1>1, <2>2, <2>3, TextFacts DEF AtTurn, FitsTurn, FitsOp, FitsContents,
       FitsReload, FitsFile, ApartBut, HasContents, MovingPlaces,
       RestoringPlaces, Deleting, Parsing, TaskTypes, CacheTypes, StoreTypes
  <2>6. pc'[g] # "idle" => FitsContents(pc[g], task[g])'
    BY <1>1, <2>2, <2>3, TextFacts DEF AtTurn, FitsTurn, FitsOp, FitsFile,
       FitsReload, FitsContents, ApartBut, HasContents, MovingPlaces,
       RestoringPlaces, Deleting, Parsing, TaskTypes, CacheTypes, StoreTypes
  <2>7. pc'[g] # "idle" => FitsReload(pc[g], task[g])'
    BY <1>1, <2>2, <2>3, TextFacts DEF AtTurn, FitsTurn, FitsOp, FitsFile,
       FitsContents, FitsReload, ApartBut, HasContents, MovingPlaces,
       RestoringPlaces, Deleting, Parsing, TaskTypes, CacheTypes, StoreTypes
  <2>8. pc'[g] # "idle" => FitsEditor(pc[g], task[g])'
    BY <1>1, <2>2, <2>3, TextFacts DEF AtTurn, FitsTurn, FitsOp, FitsFile,
       FitsContents, FitsReload, FitsEditor, Carries, ApartBut, HasContents,
       MovingPlaces, RestoringPlaces, Deleting, Parsing, TaskTypes,
       CacheTypes, StoreTypes
  <2>9. ForgetsBut(pc[g], task[g])'
    BY <1>1, <2>2, <2>3, TextFacts DEF AtTurn, FitsTurn, FitsOp, FitsFile,
       FitsContents, FitsReload, ForgetsBut, ApartBut, HasContents,
       MovingPlaces, RestoringPlaces, Deleting, Parsing, TaskTypes,
       CacheTypes, StoreTypes
  <2>10. ApartBut(pc[g], task[g])'
    BY <1>1, <2>2, <2>3, TextFacts DEF AtTurn, FitsTurn, FitsOp, FitsFile,
       FitsContents, FitsReload, ApartBut, HasContents, MovingPlaces,
       RestoringPlaces, Deleting, Parsing, TaskTypes, CacheTypes, StoreTypes
  <2>11. KeptBut(pc[g], task[g])'
    BY <1>1, <2>2, <2>3, TextFacts DEF AtTurn, FitsTurn, FitsOp, FitsFile,
       FitsContents, FitsReload, FitsEditor, Carries, KeptBut, ApartBut,
       HasContents, MovingPlaces, RestoringPlaces, Deleting, Parsing,
       TaskTypes, CacheTypes, StoreTypes
  <2> QED
    BY <1>2, <2>1, <2>2, <2>4, <2>5, <2>6, <2>7, <2>8, <2>9, <2>10,
       <2>11, StepKeepsTurns DEF Sorted, FitsTurn
<1> QED
  BY <1>3, <1>4, <1>5, <1>6, <1>7, <1>8, <1>9, <1>10, <1>11, <1>12, <1>13, <1>14, <1>15,
     <1>16, <1>17, <1>18

\* loadConfig goes on to the next file to move out, or back.
LEMMA NextFileKeepsTurns ==
  ASSUME TypeInv, TurnInv, NEW g \in Others, pc[g] # "idle", MoveNext(g) \/ RestoreNext(g)
  PROVE  TurnInv'
<1>1. AtTurn(g)
  BY BusyIsAtTurn
<1>2. OnlyBusy(g)
  BY BusyIsAtTurn
<1>3. OnlyMoves(g)
  BY DEF MoveNext, RestoreNext, OnlyMoves, Goto, TypeInv
<1>4. SameTexts
  BY DEF MoveNext, RestoreNext, SameTexts, LocalStep, config, outside, runs
<1>5. task[g].op = "reload" /\ task[g].todo \in SUBSET Files /\ pc[g] \in {"move", "restoring"}
  BY <1>1 DEF MoveNext, RestoreNext, AtTurn, FitsTurn, FitsOp, TaskTypes
<1>6. \A f \in Files : ~(f = task[g].file /\ Carries(pc[g], task[g]))
  BY <1>5 DEF Carries, Deleting
<1>7. CASE MoveNext(g) /\ task[g].todo \intersect ignoring = {} /\ Goto(g, "restore")
                       /\ UNCHANGED task
  <2>1. pc[g] = "move" /\ pc'[g] = "restore" /\ task' = task
    BY <1>1, <1>7 DEF MoveNext, AtTurn, Goto
  <2>2. FitsTurn(pc[g], task[g])'
    BY <1>1, <1>5, <2>1 DEF AtTurn, FitsTurn, FitsOp, FitsFile, FitsContents, FitsReload,
       FitsEditor, Carries, MovingPlaces, RestoringPlaces, Deleting, Parsing
  <2>3. ForgetsBut(pc[g], task[g])'
    BY <1>1, <1>4, <2>1 DEF AtTurn, ForgetsBut, SameTexts, HasContents
  <2>4. ApartBut(pc[g], task[g])'
    BY <1>1, <1>4, <1>5, <1>7, <2>1 DEF AtTurn, ApartBut, SameTexts, HasContents
  <2>5. KeptBut(pc[g], task[g])'
    BY <1>1, <1>4, <1>6, <2>1 DEF AtTurn, KeptBut, SameTexts, HasContents
  <2> QED
    BY <1>2, <1>3, <1>4, <2>2, <2>3, <2>4, <2>5, StepKeepsTurns DEF Sorted, SameTexts
<1>8. ASSUME NEW f \in task[g].todo \intersect ignoring, pc[g] = "move",
             task' = [task EXCEPT ![g].file = f, ![g].todo = @ \ {f},
                                  ![g].text = cache.contents[f]],
             Goto(g, IF HasContents(f) THEN "delContents" ELSE "removeMod")
      PROVE  TurnInv'
  <2>1. /\ task'[g].op = "reload" /\ task'[g].file = f /\ task'[g].todo = task[g].todo \ {f}
        /\ task'[g].text = cache.contents[f] /\ f \in Files /\ f \in ignoring
    BY <1>1, <1>5, <1>8 DEF AtTurn, TaskTypes
  <2>2. pc'[g] = (IF HasContents(f) THEN "delContents" ELSE "removeMod")
    BY <1>1, <1>8 DEF AtTurn, Goto
  <2>3. FitsOp(pc[g], task[g])' /\ FitsFile(pc[g], task[g])' /\ FitsContents(pc[g], task[g])'
    BY <1>4, <2>1, <2>2 DEF FitsOp, FitsFile, FitsContents, SameTexts, EditorOps,
       MovingPlaces, RestoringPlaces, Deleting, Parsing
  <2>4. FitsReload(pc[g], task[g])'
    BY <1>1, <1>4, <1>5, <1>8, <2>1, <2>2 DEF AtTurn, ForgetsBut, FitsReload, SameTexts,
       HasContents, MovingPlaces, RestoringPlaces, Deleting, Parsing
  <2>5. FitsEditor(pc[g], task[g])'
    BY <2>1, <2>2 DEF FitsEditor, Carries, Deleting
  <2>6. ForgetsBut(pc[g], task[g])'
    BY <1>1, <1>4, <1>8, <2>1, <2>2 DEF AtTurn, ForgetsBut, SameTexts, HasContents
  <2>7. ApartBut(pc[g], task[g])'
    BY <1>1, <1>4, <1>5, <1>8, <2>1, <2>2 DEF AtTurn, ApartBut, SameTexts, HasContents,
       MovingPlaces, RestoringPlaces, Deleting, Parsing
  <2>8. KeptBut(pc[g], task[g])'
    BY <1>1, <1>4, <1>6 DEF AtTurn, KeptBut, SameTexts, HasContents
  <2> QED
    BY <1>2, <1>3, <1>4, <2>3, <2>4, <2>5, <2>6, <2>7, <2>8, StepKeepsTurns
       DEF Sorted, FitsTurn, SameTexts
<1>9. CASE RestoreNext(g) /\ task[g].todo = {} /\ Goto(g, "request") /\ UNCHANGED task
  <2>1. pc[g] = "restoring" /\ pc'[g] = "request" /\ task' = task
    BY <1>1, <1>9 DEF RestoreNext, AtTurn, Goto
  <2>2. FitsTurn(pc[g], task[g])'
    BY <1>1, <1>5, <2>1 DEF AtTurn, FitsTurn, FitsOp, FitsFile, FitsContents, FitsReload,
       FitsEditor, Carries, MovingPlaces, RestoringPlaces, Deleting, Parsing
  <2>3. ForgetsBut(pc[g], task[g])'
    BY <1>1, <1>4, <2>1 DEF AtTurn, ForgetsBut, SameTexts, HasContents, MovingPlaces, Deleting
  <2>4. ApartBut(pc[g], task[g])'
    BY <1>1, <1>4, <1>9, <2>1 DEF AtTurn, ApartBut, SameTexts, HasContents, MovingPlaces,
       Deleting
  <2>5. KeptBut(pc[g], task[g])'
    BY <1>1, <1>4, <1>6, <2>1 DEF AtTurn, KeptBut, SameTexts, HasContents
  <2> QED
    BY <1>2, <1>3, <1>4, <2>2, <2>3, <2>4, <2>5, StepKeepsTurns DEF Sorted, SameTexts
<1>10. ASSUME NEW f \in task[g].todo, pc[g] = "restoring",
              task' = [task EXCEPT ![g].file = f, ![g].todo = @ \ {f},
                                   ![g].text = task[g].copy[f]],
              Goto(g, IF HasContents(f) THEN "clearIgnored" ELSE "set")
       PROVE  TurnInv'
  <2>0. f \notin ignoring /\ cache.ignored[f] # Nothing /\ task[g].copy[f] = cache.ignored[f]
    BY <1>1, <1>5, <1>10 DEF AtTurn, FitsTurn, FitsReload, RestoringPlaces
  <2>1. /\ task'[g].op = "reload" /\ task'[g].file = f /\ task'[g].todo = task[g].todo \ {f}
        /\ task'[g].text = cache.ignored[f] /\ task'[g].copy = task[g].copy /\ f \in Files
    BY <1>1, <1>5, <1>10, <2>0 DEF AtTurn, TaskTypes
  <2>2. pc'[g] = (IF HasContents(f) THEN "clearIgnored" ELSE "set")
    BY <1>1, <1>10 DEF AtTurn, Goto
  <2>3. FitsOp(pc[g], task[g])' /\ FitsFile(pc[g], task[g])' /\ FitsContents(pc[g], task[g])'
    BY <1>4, <2>0, <2>1, <2>2 DEF FitsOp, FitsFile, FitsContents, SameTexts, EditorOps,
       MovingPlaces, RestoringPlaces, Deleting, Parsing
  <2>4. FitsReload(pc[g], task[g])'
    BY <1>1, <1>4, <1>5, <1>10, <2>1, <2>2 DEF AtTurn, FitsTurn, FitsReload, SameTexts,
       HasContents, RestoringPlaces, Deleting, Parsing
  <2>5. FitsEditor(pc[g], task[g])'
    BY <2>1, <2>2 DEF FitsEditor, Carries, Deleting
  <2>6. ForgetsBut(pc[g], task[g])'
    BY <1>1, <1>4, <1>10, <2>1, <2>2 DEF AtTurn, ForgetsBut, SameTexts, HasContents,
       MovingPlaces, Deleting
  <2>7. ApartBut(pc[g], task[g])'
    BY <1>1, <1>4, <1>5, <1>10, <2>1, <2>2 DEF AtTurn, ApartBut, SameTexts, HasContents,
       MovingPlaces, RestoringPlaces, Deleting, Parsing
  <2>8. KeptBut(pc[g], task[g])'
    BY <1>1, <1>4, <1>6 DEF AtTurn, KeptBut, SameTexts, HasContents
  <2> QED
    BY <1>2, <1>3, <1>4, <2>3, <2>4, <2>5, <2>6, <2>7, <2>8, StepKeepsTurns
       DEF Sorted, FitsTurn, SameTexts
<1>11. CASE MoveNext(g)
  BY <1>7, <1>8, <1>11 DEF MoveNext
<1>12. CASE RestoreNext(g)
  BY <1>9, <1>10, <1>12 DEF RestoreNext
<1> QED
  BY <1>11, <1>12

\* All the steps of a goroutine that is not the lint worker.
LEMMA OthersKeepTurns ==
  ASSUME TypeInv, TypeInv', TurnInv, NEW g \in Others, Step(g)
  PROVE  TurnInv'
<1>1. pc[g] # "idle"
  <2>1. MessageStep(g) \/ ParseStep(g) => pc[g] # "idle"
    BY DEF MessageStep, CacheStep, Decide, SetIgnored, CheckTemplating, SetContents,
       RequestLint, RequestTemplate, ParseStep, ParseRead, SetParseErrors, SetModule,
       SetLineCount, PutFileMod, PutFileRefs, AfterParse
  <2>2. DiskStep(g) \/ DeleteStep(g) \/ SendStep(g) => pc[g] # "idle"
    BY DEF DiskStep, CacheStep, CheckHasContents, ReadDisk, CompareContents, WriteFromDisk,
       Stat, RenameRead, RenameTarget, DeleteStep, DeleteContents, DeleteIgnored,
       DeleteModule, DeleteDiagnostics, DeleteParseErrors, DeleteLineCount, SendStep,
       SendErrors, SendDiags, Notify
  <2>3. TemplateStep(g) => pc[g] # "idle"
    BY DEF TemplateStep, CacheStep, FormatRead, ClearFileDiagnostics, MarkTemplating,
       CheckEmpty, CheckEmptyOnDisk, ApplyTemplate, UnmarkTemplating, FixMismatch,
       MoveFrom, MoveTo, MoveSet, MovePut
  <2>4. ConfigStep(g) \/ LintStep(g) => pc[g] # "idle"
    BY DEF ConfigStep, CacheStep, MoveNext, RemoveFileMod, CopyIgnored, RestoreNext,
       ClearIgnored, LintStep, Lint, LintCheck, SetFileDiagnostics, LintFiles, LintSend
  <2> QED
    BY <2>1, <2>2, <2>3, <2>4 DEF Step
<1>2. AtTurn(g)
  BY <1>1, BusyIsAtTurn
<1>3. pc[g] \in MovingPlaces \union RestoringPlaces \union
        {"decide", "templating?", "has", "read", "compare", "write", "request", "restore"}
  BY <1>2 DEF AtTurn, FitsTurn, FitsOp
<1>4. CASE MessageStep(g)
  <2>1. ~RequestTemplate(g)
    BY <1>3 DEF RequestTemplate, MovingPlaces, RestoringPlaces, Deleting, Parsing
  <2> QED
    BY <1>1, <1>4, <2>1, LookingKeepsTurns, WritingKeepsTurns DEF MessageStep
<1>5. CASE ParseStep(g)
  BY <1>1, <1>5, LookingKeepsTurns, WritingKeepsTurns DEF ParseStep
<1>6. CASE DiskStep(g)
  <2>1. ~Stat(g) /\ ~RenameRead(g) /\ ~RenameTarget(g)
    BY <1>3 DEF Stat, RenameRead, RenameTarget, MovingPlaces, RestoringPlaces, Deleting,
       Parsing
  <2> QED
    BY <1>1, <1>6, <2>1, LookingKeepsTurns, WritingKeepsTurns DEF DiskStep
<1>7. CASE DeleteStep(g)
  BY <1>1, <1>7, WritingKeepsTurns DEF DeleteStep
<1>8. ~SendStep(g)
  BY <1>3 DEF SendStep, SendErrors, SendDiags, Notify, MovingPlaces, RestoringPlaces,
     Deleting, Parsing
<1>9. ~TemplateStep(g)
  BY <1>3 DEF TemplateStep, CacheStep, FormatRead, ClearFileDiagnostics, MarkTemplating,
     CheckEmpty, CheckEmptyOnDisk, ApplyTemplate, UnmarkTemplating, FixMismatch,
       MoveFrom, MoveTo, MoveSet, MovePut, MovingPlaces,
     RestoringPlaces, Deleting, Parsing
<1>10. CASE ConfigStep(g)
  BY <1>1, <1>10, NextFileKeepsTurns, LookingKeepsTurns, WritingKeepsTurns DEF ConfigStep
<1>11. ~LintStep(g)
  BY <1>3 DEF LintStep, CacheStep, Lint, LintCheck, SetFileDiagnostics, LintFiles, LintSend,
     MovingPlaces, RestoringPlaces, Deleting, Parsing
<1> QED
  BY <1>4, <1>5, <1>6, <1>7, <1>8, <1>9, <1>10, <1>11 DEF Step

\* The others stay where they are, and the texts they work on as they were.
OthersStay ==
  /\ \A h \in Others : pc'[h] = pc[h] /\ task'[h] = task[h]
  /\ cache'.contents = cache.contents /\ cache'.ignored = cache.ignored
  /\ cache'.modules = cache.modules /\ store' = store
  /\ UNCHANGED <<ignoring, editor, templates, templating>>

\* A step that leaves the others and the texts alone keeps the invariant.
LEMMA OthersStayKeepsTurns ==
  ASSUME TurnInv, OthersStay, LinterAt'
  PROVE  TurnInv'
<1>1. Alone' /\ (templates = {})' /\ (templating = {})'
  BY DEF TurnInv, Alone, OthersStay
<1>2. ASSUME NEW h \in Others, OnlyBusy(h)'
      PROVE  Sorted(pc[h], task[h])'
  <2>1. OnlyBusy(h) /\ pc'[h] = pc[h] /\ task'[h] = task[h]
    BY <1>2 DEF OnlyBusy, OthersStay
  <2>2. Sorted(pc[h], task[h])
    BY <2>1 DEF TurnInv
  <2>3. (pc[h] # "idle")' => FitsTurn(pc[h], task[h])
    BY <2>1, <2>2 DEF Sorted
  <2>4. FitsTurn(pc[h], task[h]) => FitsTurn(pc[h], task[h])'
    <3>1. FitsOp(pc[h], task[h]) => FitsOp(pc[h], task[h])'
      BY <2>1 DEF FitsOp
    <3>2. FitsFile(pc[h], task[h]) => FitsFile(pc[h], task[h])'
      BY <2>1 DEF FitsFile, OthersStay
    <3>3. FitsContents(pc[h], task[h]) => FitsContents(pc[h], task[h])'
      BY <2>1 DEF FitsContents, HasContents, OthersStay
    <3>4. FitsReload(pc[h], task[h]) => FitsReload(pc[h], task[h])'
      BY <2>1 DEF FitsReload, HasContents, OthersStay
    <3>5. FitsEditor(pc[h], task[h]) => FitsEditor(pc[h], task[h])'
      BY <2>1 DEF FitsEditor, Carries, OthersStay
    <3> QED
      BY <3>1, <3>2, <3>3, <3>4, <3>5 DEF FitsTurn
  <2>5. ForgetsBut(pc[h], task[h])'
    BY <2>1, <2>2 DEF Sorted, ForgetsBut, HasContents, OthersStay
  <2>6. ApartBut(pc[h], task[h])'
    BY <2>1, <2>2 DEF Sorted, ApartBut, HasContents, OthersStay
  <2>7. KeptBut(pc[h], task[h])'
    BY <2>1, <2>2 DEF Sorted, KeptBut, HasContents, Carries, OthersStay
  <2> QED
    BY <2>3, <2>4, <2>5, <2>6, <2>7 DEF Sorted
<1> QED
  BY <1>1, <1>2 DEF TurnInv

\* A lint run writes violations into the cache, and no texts.
LEMMA LintWorkerKeepsTurns ==
  ASSUME TypeInv, TurnInv, Step(LintWorker)
  PROVE  TurnInv'
<1> DEFINE g == LintWorker
<1>1. /\ g \in Goroutines /\ task[g] \in TaskTypes
      /\ g \in DOMAIN pc /\ g \in DOMAIN task
  BY DEF Goroutines, TypeInv
<1>2. /\ pc[g] \in LintPlaces /\ (pc[g] # "idle" => task[g].op = "lint")
  BY DEF TurnInv, LinterAt
<1>3. cache \in CacheTypes
  BY DEF TypeInv, MapsOK
<1>4. \/ Lint(g) \/ LintCheck(g) \/ SetFileDiagnostics(g) \/ LintFiles(g) \/ LintSend(g)
      \/ SendErrors(g) \/ SendDiags(g) \/ Notify(g)
  BY <1>1, <1>2, LintWorkerSteps
<1> HIDE DEF g
<1>g. g = LintWorker
  BY DEF g
<1>5. ASSUME pc'[g] \in LintPlaces, pc'[g] # "idle" => task'[g].op = "lint"
      PROVE  LinterAt'
  BY <1>5, <1>g DEF LinterAt
<1>6. ASSUME \A h \in Others : pc'[h] = pc[h] /\ task'[h] = task[h], cache' = cache,
             store' = store, config' = config, editor' = editor
      PROVE  OthersStay
  BY <1>6 DEF OthersStay, config
<1>7. CASE Lint(g)
  <2>1. /\ cache' = cache /\ store' = store /\ config' = config /\ editor' = editor
        /\ \A h \in Others : pc'[h] = pc[h] /\ task'[h] = task[h]
    BY <1>7, <1>g DEF Lint, Goto, Finish, outside, Others, TypeInv
  <2>2. pc'[g] = "idle" \/ (pc'[g] = "lintCheck" /\ task' = task /\ pc[g] # "idle")
    BY <1>1, <1>7 DEF Lint, Goto, Finish
  <2> QED
    BY <1>2, <1>5, <1>6, <2>1, <2>2, OthersStayKeepsTurns DEF LintPlaces
<1>8. CASE LintCheck(g) \/ LintFiles(g) \/ LintSend(g) \/ SendErrors(g) \/ SendDiags(g)
  <2>1. /\ cache' = cache /\ store' = store /\ config' = config /\ editor' = editor
    BY <1>8 DEF LintCheck, LintFiles, LintSend, SendErrors, SendDiags, LocalStep, outside
  <2>2. \A h \in Others : pc'[h] = pc[h] /\ task'[h] = task[h]
    BY <1>8, <1>g DEF LintCheck, LintFiles, LintSend, SendErrors, SendDiags, Goto, Finish,
       Others, TypeInv
  <2>3. pc'[g] \in LintPlaces
    BY <1>1, <1>8 DEF LintCheck, LintFiles, LintSend, SendErrors, SendDiags, Goto, Finish,
       LintPlaces
  <2>4. pc'[g] # "idle" => task'[g].op = task[g].op /\ pc[g] # "idle"
    <3>1. pc[g] # "idle"
      BY <1>8 DEF LintCheck, LintFiles, LintSend, SendErrors, SendDiags
    <3>2. CASE LintCheck(g) \/ LintFiles(g)
      BY <1>1, <3>2 DEF LintCheck, LintFiles, TaskTypes
    <3>3. CASE LintSend(g)
      BY <1>1, <3>3 DEF LintSend, Goto, Finish, TaskTypes
    <3>4. CASE SendErrors(g) \/ SendDiags(g)
      BY <1>1, <3>4 DEF SendErrors, SendDiags, TaskTypes
    <3> QED
      BY <1>8, <3>1, <3>2, <3>3, <3>4
  <2> QED
    BY <1>2, <1>5, <1>6, <2>1, <2>2, <2>3, <2>4, OthersStayKeepsTurns
<1>9. CASE SetFileDiagnostics(g)
  <2>1. /\ pc[g] = "lintStore" /\ pc'[g] = "lintCheck" /\ task' = task
        /\ store' = store /\ config' = config /\ editor' = editor
        /\ \A h \in Others : pc'[h] = pc[h]
    BY <1>1, <1>9, <1>g DEF SetFileDiagnostics, CacheStep, Goto, outside, Others, TypeInv
  <2>2. /\ cache'.contents = cache.contents /\ cache'.ignored = cache.ignored
        /\ cache'.modules = cache.modules
    BY <1>3, <1>9 DEF SetFileDiagnostics, CacheStep, CacheTypes
  <2>3. OthersStay
    BY <2>1, <2>2 DEF OthersStay, config
  <2> QED
    BY <1>2, <1>5, <2>1, <2>3, OthersStayKeepsTurns DEF LintPlaces
<1>10. CASE Notify(g)
  <2>1. /\ cache' = cache /\ store' = store /\ config' = config /\ editor' = editor
        /\ \A h \in Others : pc'[h] = pc[h]
    BY <1>10, <1>g DEF Notify, Goto, Finish, Others, TypeInv
  <2>2. pc[g] = "notify" /\ pc'[g] = "lintSend" /\ task' = task
    BY <1>1, <1>2, <1>10 DEF Notify, Goto
  <2> QED
    BY <1>2, <1>5, <1>6, <2>1, <2>2, OthersStayKeepsTurns DEF LintPlaces
<1> QED
  BY <1>4, <1>7, <1>8, <1>9, <1>10

\* A lint run begins; the disk changes; a lint run is asked for; nobody does anything.
LEMMA OutsideKeepsTurns ==
  ASSUME TypeInv, TurnInv, StartLint \/ DiskChange \/ Poke \/ UNCHANGED vars
  PROVE  TurnInv'
<1>1. /\ cache' = cache /\ store' = store /\ UNCHANGED <<ignoring, editor, templates, templating>>
  BY DEF StartLint, DiskChange, Poke, vars, config, outside
<1>2. CASE StartLint
  <2>1. \A h \in Others : pc'[h] = pc[h] /\ task'[h] = task[h]
    BY <1>2 DEF StartLint, Goto, Others
  <2>2. pc'[LintWorker] = "lint" /\ task'[LintWorker].op = "lint"
    BY <1>2 DEF StartLint, Goto, NoTask, TypeInv, Goroutines
  <2> QED
    BY <1>1, <2>1, <2>2, OthersStayKeepsTurns DEF OthersStay, LinterAt, LintPlaces
<1>3. CASE DiskChange \/ Poke \/ UNCHANGED vars
  <2>1. pc' = pc /\ task' = task
    BY <1>3 DEF DiskChange, Poke, vars
  <2> QED
    BY <1>1, <2>1, OthersStayKeepsTurns DEF OthersStay, LinterAt, TurnInv
<1> QED
  BY <1>2, <1>3

\* When all rest, each file is in its part of the cache, with the text that was sent.
FilesInPlace ==
  \A f \in Files :
    /\ HasContents(f) \/ (cache.modules[f] = Nothing /\ store.parsed[f] = Nothing)
    /\ f \in ignoring => ~HasContents(f)
    /\ f \notin ignoring => cache.ignored[f] = Nothing
    /\ editor[f] # Nothing => \/ cache.contents[f] = editor[f]
                              \/ ~HasContents(f) /\ cache.ignored[f] = editor[f]

\* That is what the invariant says when nobody is busy.
LEMMA RestIsInPlace ==
  ASSUME TurnInv, AtRest
  PROVE  FilesInPlace
<1>1. ConfigWorker \in Others /\ \A h \in Others : pc[h] = "idle"
  BY GoroutinesAreDistinct DEF AtRest, Others, Goroutines
<1>2. OnlyBusy(ConfigWorker) /\ pc[ConfigWorker] = "idle"
  BY <1>1 DEF OnlyBusy
<1>3. Sorted("idle", task[ConfigWorker])
  BY <1>1, <1>2 DEF TurnInv
<1>4. "idle" \notin MovingPlaces \union RestoringPlaces \union
        {"restore", "decide", "templating?"}
  BY DEF MovingPlaces, RestoringPlaces, Deleting, Parsing
<1>5. ~Carries("idle", task[ConfigWorker])
  BY DEF Carries, Deleting
<1> HIDE DEF MovingPlaces, RestoringPlaces
<1>6. \A f \in Files : HasContents(f) \/ (cache.modules[f] = Nothing /\ store.parsed[f] = Nothing)
  BY <1>3, <1>4 DEF Sorted, ForgetsBut
<1>7. \A f \in Files : /\ f \in ignoring => ~HasContents(f)
                       /\ f \notin ignoring => cache.ignored[f] = Nothing
  BY <1>3, <1>4 DEF Sorted, ApartBut, MovingPlaces, RestoringPlaces
<1>8. \A f \in Files : editor[f] # Nothing => \/ cache.contents[f] = editor[f]
                                              \/ ~HasContents(f) /\ cache.ignored[f] = editor[f]
  BY <1>3, <1>5 DEF Sorted, KeptBut
<1> QED
  BY <1>6, <1>7, <1>8 DEF FilesInPlace

\* A message of the editor, or a file to load: it begins when all rest.
LEMMA BeginKeepsTurns ==
  ASSUME EditorInTurn, TypeInv, TurnInv, NEW g \in Pool,
         NEW o \in {"open", "edit", "close", "watched", "load"}, NEW f \in Files,
         NEW t \in MaybeText, Begin(g, o, f, f, t, "decide"),
         \/ o \in {"open", "edit"} /\ t # Nothing /\ editor' = [editor EXCEPT ![f] = t]
         \/ o = "close" /\ editor' = [editor EXCEPT ![f] = Nothing]
         \/ o \in {"watched", "load"} /\ editor' = editor
  PROVE  TurnInv'
<1>1. g \in Others /\ g \in DOMAIN pc /\ g \in DOMAIN task /\ editor \in [Files -> MaybeText]
  BY GoroutinesAreDistinct DEF Others, Goroutines, TypeInv, WorldOK
<1>2. /\ AtRest /\ OnlyMoves(g) /\ cache' = cache /\ store' = store
      /\ UNCHANGED <<ignoring, templates, templating>>
  BY DEF EditorInTurn, Begin, MayStart, Goto, OnlyMoves, config
<1>3. FilesInPlace
  BY <1>2, RestIsInPlace
<1>4. OnlyBusy(g)
  BY <1>2 DEF AtRest, OnlyBusy, Others
<1>5. /\ pc'[g] = "decide" /\ task'[g].op = o /\ task'[g].file = f /\ task'[g].text = t
  BY <1>1 DEF Begin, Goto, NoTask
<1>6. FitsTurn(pc[g], task[g])'
  <2>1. FitsOp(pc[g], task[g])' /\ FitsFile(pc[g], task[g])' /\ FitsContents(pc[g], task[g])'
    BY <1>5 DEF FitsOp, FitsFile, FitsContents, EditorOps, MovingPlaces, RestoringPlaces,
       Deleting, Parsing
  <2>2. FitsReload(pc[g], task[g])'
    BY <1>5 DEF FitsReload
  <2>3. FitsEditor(pc[g], task[g])'
    BY <1>1, <1>5 DEF FitsEditor, Carries
  <2> QED
    BY <2>1, <2>2, <2>3 DEF FitsTurn
<1>7. ForgetsBut(pc[g], task[g])' /\ ApartBut(pc[g], task[g])'
  BY <1>2, <1>3 DEF FilesInPlace, ForgetsBut, ApartBut, HasContents
<1>8. KeptBut(pc[g], task[g])'
  <2> SUFFICES ASSUME NEW h \in Files, editor'[h] # Nothing
               PROVE  \/ cache.contents[h] = editor'[h]
                      \/ ~HasContents(h) /\ cache.ignored[h] = editor'[h]
                      \/ h = f /\ Carries("decide", task'[g])
    BY <1>2, <1>5 DEF KeptBut, HasContents
  <2>1. CASE h = f
    BY <1>1, <1>2, <1>3, <1>5, <2>1 DEF FilesInPlace, Carries
  <2>2. CASE h # f
    BY <1>1, <1>2, <1>3, <2>2 DEF FilesInPlace
  <2> QED
    BY <2>1, <2>2
<1> QED
  BY <1>1, <1>2, <1>4, <1>6, <1>7, <1>8, StepKeepsTurns DEF Sorted

\* Of the messages and ticks, these are all that may begin.
LEMMA ReceiveKeepsTurns ==
  ASSUME EditorInTurn, TypeInv, TurnInv, NEW g \in Pool, Receive(g)
  PROVE  TurnInv'
<1>1. \A t \in SentTexts : t # Nothing /\ t \in MaybeText
  BY TextsAreDistinct DEF MaybeText
<1>2. \A o, f, d, t, l : Begin(g, o, f, d, t, l) => o \in EditorOps \union {"poke"}
  BY DEF Begin, MayStart, EditorInTurn
<1>3. Nothing \in MaybeText
  BY DEF MaybeText
<1>4. CASE ReceiveText(g)
  <2>1. PICK o \in {"open", "edit"}, f \in Files, t \in SentTexts :
          Begin(g, o, f, f, t, "decide") /\ editor' = [editor EXCEPT ![f] = t]
    BY <1>4 DEF ReceiveText
  <2> QED
    BY <1>1, <2>1, BeginKeepsTurns
<1>5. CASE ReceiveGone(g)
  <2>1. PICK o \in {"close", "delete"}, f \in Files :
          Begin(g, o, f, f, Nothing, "decide") /\ editor' = [editor EXCEPT ![f] = Nothing]
    BY <1>5 DEF ReceiveGone
  <2>2. o = "close"
    BY <1>2, <2>1 DEF EditorOps
  <2> QED
    BY <1>3, <2>1, <2>2, BeginKeepsTurns
<1>6. CASE ReceiveFile(g)
  <2>1. CASE \E o \in {"create", "watched"}, f \in Files : Begin(g, o, f, f, Nothing, "decide")
    <3>1. PICK o \in {"create", "watched"}, f \in Files : Begin(g, o, f, f, Nothing, "decide")
      BY <2>1
    <3>2. o = "watched" /\ editor' = editor
      BY <1>2, <1>6, <3>1 DEF EditorOps, ReceiveFile
    <3> QED
      BY <1>3, <3>1, <3>2, BeginKeepsTurns
  <2>2. CASE \E f \in Files : Begin(g, "format", f, f, Nothing, "format")
    BY <1>2, <2>2 DEF EditorOps
  <2> QED
    BY <1>6, <2>1, <2>2 DEF ReceiveFile
<1>7. CASE ReceiveRename(g)
  BY <1>2, <1>7 DEF ReceiveRename, EditorOps
<1>8. CASE StateWorkerTick(g)
  <2>1. PICK f \in Files : \/ Begin(g, "load", f, f, Nothing, "decide")
                           \/ Begin(g, "sweep", f, f, Nothing, "stat")
    BY <1>8 DEF StateWorkerTick
  <2>2. Begin(g, "load", f, f, Nothing, "decide") /\ editor' = editor
    BY <1>2, <1>8, <2>1 DEF EditorOps, StateWorkerTick
  <2> QED
    BY <1>3, <2>2, BeginKeepsTurns
<1> QED
  BY <1>4, <1>5, <1>6, <1>7, <1>8 DEF Receive

\* loadConfig: the files in the cache are to be looked at under the new config.
LEMMA TakeConfigKeepsTurns ==
  ASSUME EditorInTurn, TypeInv, TurnInv, TakeConfig
  PROVE  TurnInv'
<1> DEFINE g == ConfigWorker
<1>1. g \in Others /\ g \in DOMAIN pc /\ g \in DOMAIN task
  BY GoroutinesAreDistinct DEF Others, Goroutines, TypeInv
<1>2. ~DropConfig /\ "lookupFails" \notin Ops
  BY DEF DropConfig, MayStart, EditorInTurn, EditorOps
<1>3. /\ AtRest /\ OnlyMoves(g) /\ cache' = cache /\ store' = store /\ editor' = editor
      /\ UNCHANGED <<templates, templating>>
  <2>1. LoadConfig
    BY <1>2 DEF TakeConfig
  <2>2. AtRest /\ cache' = cache /\ store' = store /\ UNCHANGED <<templates, templating>>
    BY <2>1 DEF EditorInTurn, LoadConfig, MayStart
  <2>3. editor' = editor
    BY <2>1 DEF LoadConfig, outside
  <2>4. OnlyMoves(g)
    <3>1. \A h \in Goroutines \ {g} : pc'[h] = pc[h]
      <4>1. CASE Goto(g, "move")
        BY <4>1 DEF Goto, TypeInv
      <4>2. CASE Goto(g, "request")
        BY <4>2 DEF Goto, TypeInv
      <4> QED
        BY <2>1, <4>1, <4>2 DEF LoadConfig
    <3>2. \A h \in Goroutines \ {g} : task'[h] = task[h]
      BY <2>1 DEF LoadConfig, TypeInv
    <3> QED
      BY <3>1, <3>2 DEF OnlyMoves
  <2> QED
    BY <2>2, <2>3, <2>4
<1>4. FilesInPlace
  BY <1>3, RestIsInPlace
<1>5. OnlyBusy(g)
  BY <1>3 DEF AtRest, OnlyBusy, Others
<1>6. pc'[g] = "move" /\ task'[g].op = "reload" /\ task'[g].todo = AllFiles
  BY <1>1, <1>2 DEF TakeConfig, LoadConfig, Goto, NoTask
<1> HIDE DEF g
<1>7. FitsTurn(pc[g], task[g])'
  <2>1. FitsOp(pc[g], task[g])' /\ FitsFile(pc[g], task[g])' /\ FitsContents(pc[g], task[g])'
    BY <1>6 DEF FitsOp, FitsFile, FitsContents, EditorOps, MovingPlaces, RestoringPlaces,
       Deleting, Parsing
  <2>2. FitsReload(pc[g], task[g])' /\ FitsEditor(pc[g], task[g])'
    BY <1>6 DEF FitsReload, FitsEditor, Carries, RestoringPlaces, Deleting, Parsing
  <2> QED
    BY <2>1, <2>2 DEF FitsTurn
<1>8. ForgetsBut(pc[g], task[g])' /\ KeptBut(pc[g], task[g])'
  BY <1>3, <1>4 DEF FilesInPlace, ForgetsBut, KeptBut, HasContents
<1>9. ApartBut(pc[g], task[g])'
  BY <1>3, <1>4, <1>6 DEF FilesInPlace, ApartBut, HasContents, AllFiles, MovingPlaces
<1> QED
  BY <1>1, <1>3, <1>5, <1>7, <1>8, <1>9, StepKeepsTurns DEF Sorted

\* At first nothing is in the cache, and nobody is busy.
LEMMA TurnsAtFirst ==
  ASSUME Init
  PROVE  TurnInv
<1>1. /\ \A g \in Goroutines : pc[g] = "idle"
      /\ LintWorker \in Goroutines
  BY DEF Init, Goroutines
<1>2. /\ templates = {} /\ templating = {}
      /\ \A f \in Files : /\ cache.contents[f] = Nothing /\ cache.ignored[f] = Nothing
                          /\ cache.modules[f] = Nothing /\ store.parsed[f] = Nothing
                          /\ editor[f] = Nothing
  BY DEF Init, InitMaps, EveryFile
<1>3. Alone /\ LinterAt
  BY <1>1 DEF Alone, Others, LinterAt, LintPlaces
<1>4. \A g \in Others : Sorted(pc[g], task[g])
  BY <1>1, <1>2 DEF Others, Sorted, ForgetsBut, ApartBut, KeptBut, HasContents
<1> QED
  BY <1>2, <1>3, <1>4 DEF TurnInv

\* The invariant is kept by every step.
LEMMA NextKeepsTurns ==
  ASSUME EditorInTurn, TypeInv, TypeInv', TurnInv, [Next]_vars
  PROVE  TurnInv'
<1>1. CASE \E g \in Pool : Receive(g)
  BY <1>1, ReceiveKeepsTurns
<1>2. ~TakeTemplateJob
  BY DEF TurnInv, TakeTemplateJob
<1>3. CASE TakeConfig
  BY <1>3, TakeConfigKeepsTurns
<1>4. CASE \E g \in Goroutines : Step(g)
  <2>1. PICK g \in Goroutines : Step(g)
    BY <1>4
  <2>2. CASE g = LintWorker
    BY <2>1, <2>2, LintWorkerKeepsTurns
  <2>3. CASE g # LintWorker
    BY <2>1, <2>3, OthersKeepTurns DEF Others
  <2> QED
    BY <2>2, <2>3
<1>5. CASE StartLint \/ DiskChange \/ Poke \/ UNCHANGED vars
  BY <1>5, OutsideKeepsTurns
<1> QED
  BY <1>1, <1>2, <1>3, <1>4, <1>5 DEF Next

\* What is known when all is done.
LEMMA QuietIsInPlace ==
  ASSUME TurnInv, Quiescent
  PROVE  FilesInPlace
<1>1. AtRest
  BY DEF AtRest, Quiescent
<1> QED
  BY <1>1, RestIsInPlace

(* While what the editor opens, changes and closes, the files found on disk  *)
(* and the configs loaded come one at a time, the lint worker going on       *)
(* meanwhile: when all is done, a file the config ignores has no contents,   *)
(* no module to lint and no parsed module in the store, and a file it does   *)
(* not ignore has no ignored contents (server.go: loadConfig, the handlers   *)
(* of didOpen, didChange and didClose; cache.go: Delete).                    *)
THEOREM IgnoredKeptApart ==
  ASSUME EditorInTurn
  PROVE  Spec => []IgnoredIsApart
<1>1. Init => TurnInv
  BY TurnsAtFirst
<1>2. TypeInv /\ TypeInv' /\ TurnInv /\ [Next]_vars => TurnInv'
  BY NextKeepsTurns
<1>3. TurnInv => IgnoredIsApart
  BY QuietIsInPlace DEF IgnoredIsApart, FilesInPlace
<1> QED
  BY <1>1, <1>2, <1>3, TypesHold, PTL DEF Spec

(* Under the same hypothesis: when all is done, the server has, of every     *)
(* document open in the editor, the text the editor sent last, in the part   *)
(* of the cache the config in force assigns the document to, whatever files  *)
(* were loaded from disk and configs loaded since (server.go: didOpen,       *)
(* didChange, loadConfig, loadWorkspaceContents with newOnly).               *)
THEOREM EditorIsFollowed ==
  ASSUME EditorInTurn
  PROVE  Spec => []EditorIsHeard
<1>1. Init => TurnInv
  BY TurnsAtFirst
<1>2. TypeInv /\ TypeInv' /\ TurnInv /\ [Next]_vars => TurnInv'
  BY NextKeepsTurns
<1>3. TurnInv => EditorIsHeard
  BY QuietIsInPlace DEF EditorIsHeard, FilesInPlace, TextOf, HasContents
<1> QED
  BY <1>1, <1>2, <1>3, TypesHold, PTL DEF Spec

=============================================================================
