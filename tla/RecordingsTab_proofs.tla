------------------------- MODULE RecordingsTab_proofs -------------------------
(***************************************************************************)
(* The Recordings tab, for any roots, products, days and bounds.  That the *)
(* directory of today is kept does not follow from DailyDirKept alone:     *)
(* names must be those of a type, for the comparison in checkForEmptyDirs  *)
(* is one of names and days.  That a deletion is all or nothing needs what *)
(* a question in front means for the selection: a recording that has begun *)
(* has emptied it, and nothing else can have changed it.  That the list is *)
(* the disk needs where files are: in directories that are there, and the  *)
(* log of a product never without its image but while it is recorded.      *)
(***************************************************************************)
EXTENDS RecordingsTab, TLAPS

\* A program that is not running has no selection and asks nothing.
OffIsEmpty == phase = "off" => selected = {} /\ dialog = "none"

\* While the first question waits, the selection is what the user was told or,
\* once a recording has begun, nothing.
SelectionTold ==
  dialog = "confirm" => selected = IF interrupted THEN {} ELSE announced

\* What is being recorded, or has just been, is a product.
CurrentIsProduct == recording # "no" => current \in Products

TabInv ==
  TypeOK /\ OffIsEmpty /\ CurrentIsProduct /\ SelectionTold /\ DailyDirKept

-----------------------------------------------------------------------------
(* What the operators return                                               *)

LEMMA FreshProduct == Fresh # {} => NextNew \in Fresh /\ NextNew \in Products
  BY DEF NextNew, Fresh, Products

LEMMA UnlinkTyped ==
  ASSUME NEW ps \in SUBSET Products, TypeOK, Unlink(ps)
  PROVE  /\ files' \in [Products -> SUBSET (LineKinds \cup EndToEnd)]
         /\ spared' \subseteq Products
         /\ faults' \in 0..MaxFaults
         /\ \A p \in Products \ ps : files'[p] = files[p]
<1>1. CASE files' = [p \in Products |-> IF p \in ps THEN {} ELSE files[p]]
           /\ UNCHANGED <<spared, faults>>
  BY <1>1 DEF TypeOK
<1>2. ASSUME Fault, NEW p \in ps, NEW kind \in files[p],
             files' = [q \in Products |->
                         IF q = p THEN {kind}
                         ELSE IF q \in ps THEN {} ELSE files[q]],
             spared' = spared \cup {p}
      PROVE  /\ files' \in [Products -> SUBSET (LineKinds \cup EndToEnd)]
             /\ spared' \subseteq Products
             /\ faults' \in 0..MaxFaults
             /\ \A q \in Products \ ps : files'[q] = files[q]
  <2>1. faults' \in 0..MaxFaults
    BY <1>2, RecordingsTabAssumption DEF TypeOK, Fault
  <2>2. files[p] \in SUBSET (LineKinds \cup EndToEnd)
    BY DEF TypeOK
  <2> QED BY <1>2, <2>1, <2>2 DEF TypeOK
<1> QED BY <1>1, <1>2 DEF Unlink

LEMMA ScanTyped ==
  ASSUME NEW scanned \in SUBSET Dirs, TypeOK, ScanDirs(scanned)
  PROVE  /\ rows' \subseteq Products /\ overlooked' \subseteq Dirs
         /\ warned' \subseteq Products /\ faults' \in 0..MaxFaults
<1>1. \A d \in Dirs : In(d) \subseteq Products
  BY DEF In
<1>2. PICK closed \in {{}} \cup {{d} : d \in scanned} :
        ScanDirs(scanned)!(closed)
  BY DEF ScanDirs
<1>3. closed \subseteq scanned
  OBVIOUS
<1>4. faults' \in 0..MaxFaults
  BY <1>2, RecordingsTabAssumption DEF TypeOK, Fault
<1> DEFINE opened == scanned \ closed
           stop == {d \in opened : \E p \in In(d) \cap Foreign : HasMain(p)}
           whole == UNION {In(d) : d \in OtherSubdirs(opened, stop)}
           partly == (UNION {In(d) : d \in stop}) \ Foreign
<1>5. whole \subseteq Products /\ partly \subseteq Products
  BY <1>1 DEF OtherSubdirs
<1>6. PICK before \in SUBSET partly :
        LET seen == {p \in whole \cup before : HasMain(p)} IN
        /\ rows' = seen
        /\ overlooked' = closed \cup stop
        /\ warned' =
             {p \in seen : IsLine(p) /\ ~({"gps", "pps"} \subseteq files[p])}
             \cup WithoutImage((UNION {In(d) : d \in opened}) \ seen)
  BY <1>2
<1>7. rows' \subseteq Products
  BY <1>5, <1>6
<1>8. overlooked' \subseteq Dirs
  BY <1>3, <1>6
<1>9. warned' \subseteq Products
  BY <1>1, <1>5, <1>6 DEF WithoutImage
<1> QED BY <1>4, <1>7, <1>8, <1>9

-----------------------------------------------------------------------------
(* The invariant                                                           *)

LEMMA InitTab == Init => TabInv
<1> SUFFICES ASSUME Init PROVE TabInv
  OBVIOUS
<1>1. day \in 1..MaxDay /\ 1 \in 1..MaxDay
  BY RecordingsTabAssumption DEF Init
<1>2. <<Root(savedRoot), 1>> \in Dirs
  BY <1>1 DEF Init, Dirs
<1>3. home \in [Products -> Dirs \cup {<< >>}] /\ dirs \subseteq Dirs
  BY <1>2 DEF Init, Products
<1>4. files \in [Products -> SUBSET (LineKinds \cup EndToEnd)]
  BY DEF Init
<1>5. lives \in 0..MaxLives /\ changes \in 0..MaxChanges /\ faults \in 0..MaxFaults
  BY RecordingsTabAssumption DEF Init
<1>6. dailyDir \in Spellings \X (1..MaxDay)
  BY <1>1 DEF Init
<1> QED BY <1>1, <1>3, <1>4, <1>5, <1>6
        DEF Init, TabInv, TypeOK, OffIsEmpty, CurrentIsProduct, SelectionTold,
            DailyDirKept

LEMMA StartKeeps == TabInv /\ Start => TabInv'
<1> SUFFICES ASSUME TabInv, Start PROVE TabInv'
  OBVIOUS
<1> USE DEF TabInv
<1>1. Today(Root(rootDir)) \in Dirs
  BY DEF Today, Dirs, TypeOK
<1>2. dirs' \subseteq Dirs
  BY <1>1 DEF Start, TypeOK
<1>3. {d \in dirs' : d[1] = Root(rootDir)} \in SUBSET Dirs
  BY <1>2
<1>4. /\ rows' \subseteq Products /\ overlooked' \subseteq Dirs
      /\ warned' \subseteq Products /\ faults' \in 0..MaxFaults
  BY <1>3, ScanTyped DEF Start
<1>5. lives' \in 0..MaxLives
  BY RecordingsTabAssumption DEF Start, TypeOK
<1>6. dailyDir' \in Spellings \X (1..MaxDay)
  BY DEF Start, TypeOK
<1>7. selected' = {} /\ dialog' = "none" /\ phase' = "running"
  BY DEF Start, OffIsEmpty
<1>8. Dir(dailyDir)' = Today(Root(rootDir))
  BY DEF Start, Dir, Today
<1>9. DailyDirKept'
  BY <1>8 DEF Start, DailyDirKept
<1>10. TypeOK'
  BY <1>2, <1>4, <1>5, <1>6, <1>7 DEF Start, TypeOK, saidVars
<1> QED BY <1>7, <1>9, <1>10
        DEF Start, OffIsEmpty, CurrentIsProduct, SelectionTold

LEMMA ExitKeeps == TabInv /\ Exit => TabInv'
<1> SUFFICES ASSUME TabInv, Exit PROVE TabInv'
  OBVIOUS
<1> USE DEF TabInv
<1>1. NextNew \in Products
  BY FreshProduct DEF Exit
<1>2. /\ home' \in [Products -> Dirs \cup {<< >>}]
      /\ files' \in [Products -> SUBSET (LineKinds \cup EndToEnd)]
  BY <1>1 DEF Exit, TypeOK
<1> QED BY <1>2
        DEF Exit, Forgotten, TypeOK, OffIsEmpty, CurrentIsProduct,
            SelectionTold, DailyDirKept

LEMMA CrashKeeps == TabInv /\ Crash => TabInv'
  BY DEF TabInv, Crash, Forgotten, diskVars, TypeOK, OffIsEmpty,
      CurrentIsProduct, SelectionTold,
         DailyDirKept

LEMMA MidnightKeeps == TabInv /\ Midnight => TabInv'
  BY RecordingsTabAssumption
  DEF TabInv, Midnight, setVars, diskVars, tabVars, saidVars, scanVars, TypeOK,
      OffIsEmpty, CurrentIsProduct, SelectionTold, DailyDirKept, Dir

LEMMA RecordKeeps == TabInv /\ Record => TabInv'
<1> SUFFICES ASSUME TabInv, Record PROVE TabInv'
  OBVIOUS
<1> USE DEF TabInv
<1>1. NextNew \in Products
  BY FreshProduct DEF Record
<1>2. home' \in [Products -> Dirs \cup {<< >>}]
  BY <1>1 DEF Record, TypeOK
<1>3. files' \in [Products -> SUBSET (LineKinds \cup EndToEnd)]
  BY <1>1 DEF Record, TypeOK, LineKinds
<1>4. /\ recording' \in {"no", "yes", "ended", "aborted"}
      /\ current' \in Products \cup {0} /\ spared' \subseteq Products
  BY <1>1 DEF Record, TypeOK
<1>5. faults' \in 0..MaxFaults
  BY RecordingsTabAssumption DEF Record, Fault, TypeOK
<1>6. /\ selected' \subseteq rows' /\ listOn' \in BOOLEAN /\ deleteOn' \in BOOLEAN
      /\ interrupted' \in BOOLEAN
  BY DEF Record, TypeOK
<1>7. TypeOK'
  BY <1>2, <1>3, <1>4, <1>5, <1>6 DEF Record, TypeOK, setVars, scanVars
<1>8. OffIsEmpty' /\ CurrentIsProduct' /\ DailyDirKept'
  BY <1>1 DEF Record, OffIsEmpty, CurrentIsProduct, DailyDirKept, setVars, Dir
<1>9. SelectionTold'
  <2>1. CASE UNCHANGED <<selected, interrupted>>
    BY <2>1 DEF Record, SelectionTold
  <2>2. CASE selected' = {} /\ (dialog = "confirm" => interrupted')
    BY <2>2 DEF Record, SelectionTold
  <2> QED BY <2>1, <2>2 DEF Record
<1> QED BY <1>7, <1>8, <1>9

LEMMA RecordingEndsKeeps ==
  TabInv /\ (EndRecording \/ EndAborted \/ UpdateControls) => TabInv'
<1> USE DEF TabInv, setVars, tabVars, saidVars, scanVars, diskVars
<1>1. ASSUME TabInv, EndRecording PROVE TabInv'
  BY <1>1
    DEF EndRecording, TypeOK, OffIsEmpty, CurrentIsProduct, SelectionTold,
        DailyDirKept, Dir
<1>2. ASSUME TabInv, EndAborted PROVE TabInv'
  <2>1. current \in Products
    BY <1>2 DEF EndAborted, CurrentIsProduct
  <2>2. /\ files' \in [Products -> SUBSET (LineKinds \cup EndToEnd)]
        /\ spared' \subseteq Products
        /\ faults' \in 0..MaxFaults
    BY <1>2, <2>1, UnlinkTyped DEF EndAborted
  <2> QED BY <1>2, <2>2
          DEF EndAborted, TypeOK, OffIsEmpty, CurrentIsProduct, SelectionTold,
              DailyDirKept, Dir
<1>3. ASSUME TabInv, UpdateControls PROVE TabInv'
  BY <1>3
    DEF UpdateControls, TypeOK, OffIsEmpty, CurrentIsProduct, SelectionTold,
        DailyDirKept, Dir
<1> QED BY <1>1, <1>2, <1>3

LEMMA AskingKeeps ==
  TabInv /\ (Select \/ PressDelete \/ Cancel \/ DoNotPrune) => TabInv'
<1> USE DEF TabInv, setVars, tabVars, saidVars, scanVars, diskVars, Free
<1>1. ASSUME TabInv, Select PROVE TabInv'
  BY <1>1
    DEF Select, TypeOK, OffIsEmpty, CurrentIsProduct, SelectionTold,
        DailyDirKept, Dir
<1>2. ASSUME TabInv, PressDelete PROVE TabInv'
  BY <1>2
    DEF PressDelete, TypeOK, OffIsEmpty, CurrentIsProduct, SelectionTold,
        DailyDirKept, Dir
<1>3. ASSUME TabInv, Cancel PROVE TabInv'
  BY <1>3
    DEF Cancel, TypeOK, OffIsEmpty, CurrentIsProduct, SelectionTold,
        DailyDirKept, Dir
<1>4. ASSUME TabInv, DoNotPrune PROVE TabInv'
  BY <1>4
    DEF DoNotPrune, TypeOK, OffIsEmpty, CurrentIsProduct, SelectionTold,
        DailyDirKept, Dir
<1> QED BY <1>1, <1>2, <1>3, <1>4

LEMMA ConfirmKeeps == TabInv /\ Confirm => TabInv'
<1> SUFFICES ASSUME TabInv, Confirm PROVE TabInv'
  OBVIOUS
<1> USE DEF TabInv
<1>1. ToErase \in SUBSET Products
  BY DEF ToErase, TypeOK
<1>2. /\ files' \in [Products -> SUBSET (LineKinds \cup EndToEnd)]
      /\ spared' \subseteq Products
      /\ faults' \in 0..MaxFaults
  BY <1>1, UnlinkTyped DEF Confirm, TypeOK
<1> QED BY <1>2
        DEF Confirm, ToErase, TypeOK, OffIsEmpty, CurrentIsProduct,
            SelectionTold,
                    DailyDirKept, Dir, setVars, scanVars

\* The directory recordings go to is not among those pruned, unless its root
\* is known by another name.
LEMMA PruneKeeps == TabInv /\ Prune => TabInv'
<1> SUFFICES ASSUME TabInv, Prune PROVE TabInv'
  OBVIOUS
<1> USE DEF TabInv
<1>1. TypeOK' /\ OffIsEmpty' /\ CurrentIsProduct' /\ SelectionTold'
  BY DEF Prune, Respelled, TypeOK, OffIsEmpty, CurrentIsProduct, SelectionTold,
      setVars, saidVars, scanVars
<1>2. CASE rootDir = dailyDir[1]
  <2>1. dailyDir = <<rootDir, dailyDir[2]>>
    BY <1>2 DEF TypeOK
  <2>2. Dir(dailyDir) \notin EmptyDirs(files)
    BY <2>1 DEF EmptyDirs, Dir
  <2> QED BY <1>1, <2>2 DEF Prune, DailyDirKept, Dir, setVars
<1>3. CASE Respelled
  BY <1>1, <1>3 DEF Prune, DailyDirKept
<1>4. CASE Root(rootDir) # Root(dailyDir[1])
  <2>1. Dir(dailyDir) \notin EmptyDirs(files)
    BY <1>4 DEF EmptyDirs, Dir
  <2> QED BY <1>1, <2>1 DEF Prune, DailyDirKept, Dir, setVars
<1> QED BY <1>2, <1>3, <1>4 DEF Respelled

LEMMA ChangeRootKeeps == TabInv /\ ChangeRoot => TabInv'
<1> SUFFICES ASSUME TabInv, ChangeRoot PROVE TabInv'
  OBVIOUS
<1> USE DEF TabInv
<1>1. PICK s \in Spellings \ {rootDir} :
        rootDir' = s /\ dirs' = dirs \cup {Today(Root(s))}
  BY DEF ChangeRoot
<1>2. dirs' \subseteq Dirs
  BY <1>1 DEF Today, Dirs, TypeOK
<1>3. changes' \in 0..MaxChanges
  BY RecordingsTabAssumption DEF ChangeRoot, TypeOK
<1> QED BY <1>1, <1>2, <1>3
        DEF ChangeRoot, Free, TypeOK, OffIsEmpty, CurrentIsProduct,
            SelectionTold, DailyDirKept, Dir,
            tabVars, saidVars, scanVars

LEMMA NextKeeps == TabInv /\ [Next]_vars => TabInv'
<1> SUFFICES ASSUME TabInv, [Next]_vars PROVE TabInv'
  OBVIOUS
<1>1. CASE UNCHANGED vars
  BY <1>1
    DEF TabInv, vars, setVars, diskVars, tabVars, saidVars, scanVars, TypeOK,
              OffIsEmpty, CurrentIsProduct, SelectionTold, DailyDirKept, Dir
<1>2. CASE Start \/ Exit \/ Crash \/ Midnight
  BY <1>2, StartKeeps, ExitKeeps, CrashKeeps, MidnightKeeps
<1>3. CASE Record \/ EndRecording \/ EndAborted \/ UpdateControls
  BY <1>3, RecordKeeps, RecordingEndsKeeps
<1>4. CASE Select \/ PressDelete \/ Cancel \/ DoNotPrune
  BY <1>4, AskingKeeps
<1>5. CASE Confirm \/ Prune \/ ChangeRoot
  BY <1>5, ConfirmKeeps, PruneKeeps, ChangeRootKeeps
<1> QED BY <1>1, <1>2, <1>3, <1>4, <1>5 DEF Next

\* The inductive invariant of the recordings tab.
THEOREM TabInvariant == Spec => []TabInv
<1>1. Init => TabInv
  BY InitTab
<1>2. TabInv /\ [Next]_vars => TabInv'
  BY NextKeeps
<1> QED BY <1>1, <1>2, PTL DEF Spec

-----------------------------------------------------------------------------
(* Theorems                                                                *)

\* Pruning, changing the root and everything else leave the directory that
\* openFiles puts recordings in, whatever the roots are called, for as long as
\* the root in the settings is the one of the start when directories are pruned.
THEOREM DailyDirIsKept == Spec => []DailyDirKept
<1>1. TabInv => DailyDirKept
  BY DEF TabInv
<1> QED BY <1>1, TabInvariant, PTL

\* onDeleteButton deletes what it has announced, all of it or, when a recording
\* has begun while it asked, nothing, however many products there are.
THEOREM DeletionIsAllOrNothing == Spec => AllOrNothing
<1> DEFINE Step == Confirm =>
             /\ rows \ rows' = (IF interrupted THEN {} ELSE announced)
             /\ {p \in Products : files'[p] # files[p]} \subseteq announced
<1>1. TabInv /\ [Next]_vars => [Step]_vars
  <2> SUFFICES ASSUME TabInv, Confirm PROVE Step
    OBVIOUS
  <2>1. /\ selected = (IF interrupted THEN {} ELSE announced)
        /\ selected \subseteq rows /\ selected \in SUBSET Products
    BY DEF TabInv, SelectionTold, Confirm, TypeOK
  <2>2. rows \ rows' = selected
    BY <2>1 DEF Confirm, ToErase
  <2>3. \A p \in Products \ selected : files'[p] = files[p]
    BY <2>1, UnlinkTyped DEF Confirm, ToErase, TabInv
  <2>4. selected \subseteq announced
    BY <2>1
  <2> QED BY <2>1, <2>2, <2>3, <2>4
<1>2. [][Next]_vars /\ []TabInv => [][Step]_vars
  BY <1>1, PTL
<1> QED BY <1>2, TabInvariant, PTL DEF Spec, AllOrNothing

-----------------------------------------------------------------------------
(* The tab and the disk                                                    *)

\* Files are in directories there are, and in none when none was chosen.
HomesAreThere ==
  \A p \in Products : /\ files[p] # {} => home[p] \in dirs
                      /\ home[p] = << >> => files[p] = {}

\* What cleanupForExit leaves is no flight line.
LogsAreAlone == \A p \in Products : "log" \in files[p] => files[p] = EndToEnd

\* What is recorded has its files until an abort has removed them, but for one
\* that the file system kept.
RecordedIsThere ==
  /\ phase = "off" => recording = "no"
  /\ recording \in {"yes", "ended"} => files[current] = LineKinds
  /\ recording = "aborted" => files[current] = {} \/ current \in spared

DiskInv ==
  TabInv /\ HomesAreThere /\ LogsAreAlone /\ RecordedIsThere /\ TabMatchesDisk

\* The rest of DiskInv, when TabInv is known to be kept.
DiskPart == HomesAreThere /\ LogsAreAlone /\ RecordedIsThere /\ TabMatchesDisk

\* Of what is unlinked nothing is left, unless the file system has refused.
LEMMA UnlinkLeaves ==
  ASSUME NEW ps \in SUBSET Products, TypeOK, Unlink(ps)
  PROVE  /\ spared \subseteq spared'
         /\ \A p \in Products :
              /\ files'[p] \subseteq files[p]
              /\ p \notin ps => files'[p] = files[p]
              /\ p \in ps => files'[p] = {} \/ p \in spared'
<1>1. CASE files' = [p \in Products |-> IF p \in ps THEN {} ELSE files[p]]
           /\ UNCHANGED <<spared, faults>>
  BY <1>1
<1>2. ASSUME NEW p \in ps, NEW kind \in files[p],
             files' = [q \in Products |->
                         IF q = p THEN {kind}
                         ELSE IF q \in ps THEN {} ELSE files[q]],
             spared' = spared \cup {p}
      PROVE  /\ spared \subseteq spared'
             /\ \A q \in Products :
                  /\ files'[q] \subseteq files[q]
                  /\ q \notin ps => files'[q] = files[q]
                  /\ q \in ps => files'[q] = {} \/ q \in spared'
  BY <1>2
<1> QED BY <1>1, <1>2 DEF Unlink

LEMMA NoHome == << >> \notin Dirs
<1> SUFFICES ASSUME << >> \in Dirs PROVE FALSE
  OBVIOUS
<1>1. PICK r \in {Root(s) : s \in Spellings}, d \in 1..MaxDay : << >> = <<r, d>>
  BY DEF Dirs
<1> QED BY <1>1

LEMMA InitDisk == Init => DiskPart
<1> SUFFICES ASSUME Init PROVE DiskPart
  OBVIOUS
<1>1. \A p \in Old : home[p] = <<Root(savedRoot), 1>> /\ home[p] \in dirs /\ home[p] # << >>
  BY DEF Init, Products
<1>2. \A p \in Products \ Old : files[p] = {}
  BY DEF Init, Products
<1>3. HomesAreThere
  BY <1>1, <1>2 DEF HomesAreThere
<1>4. \A p \in Products : "log" \notin files[p]
  <2>1. \A p \in Products : files[p] \in {{}, LineKinds, LineKinds \ {"raw"},
                                              LineKinds \ {"gps"}}
    BY DEF Init
  <2> QED BY <2>1 DEF LineKinds
<1> QED BY <1>3, <1>4 DEF Init, DiskPart, LogsAreAlone, RecordedIsThere, TabMatchesDisk

(* Nothing the tab or the disk holds is changed.                            *)
LEMMA DiskStays ==
  ASSUME DiskPart,
         UNCHANGED <<phase, dailyDir, home, files, rows, recording, current, spared,
                     overlooked, warned>>,
         dirs \subseteq dirs'
  PROVE  DiskPart'
<1>1. HomesAreThere' /\ LogsAreAlone' /\ RecordedIsThere'
  BY DEF DiskPart, HomesAreThere, LogsAreAlone, RecordedIsThere
<1>2. TabMatchesDisk'
  BY DEF DiskPart, TabMatchesDisk, RowsMatchDisk, OrphansMentioned, HasMain
<1> QED BY <1>1, <1>2 DEF DiskPart

(* scanDirs gives a row to every product there is, in any order of the      *)
(* entries, but for directories it has not gone through.                    *)
LEMMA ScanMatches ==
  ASSUME NEW scanned, NEW root, ScanDirs(scanned), TypeOK, LogsAreAlone,
         \A p \in Products : files[p] # {} /\ home[p][1] = root => home[p] \in scanned
  PROVE  /\ \A p \in rows' : HasMain(p)
         /\ \A p \in Products \ rows' :
              HasMain(p) /\ home[p][1] = root => home[p] \in overlooked'
         /\ \A p \in Products :
              files[p] \cap {"gps", "pps"} # {} /\ "raw" \notin files[p]
                /\ home[p][1] = root => p \in warned' \/ home[p] \in overlooked'
<1>1. PICK closed \in {{}} \cup {{d} : d \in scanned} :
        ScanDirs(scanned)!(closed)
  BY DEF ScanDirs
<1> DEFINE opened == scanned \ closed
           stop == {d \in opened : \E p \in In(d) \cap Foreign : HasMain(p)}
           whole == UNION {In(d) : d \in OtherSubdirs(opened, stop)}
           partly == (UNION {In(d) : d \in stop}) \ Foreign
<1>2. PICK before \in SUBSET partly :
        LET seen == {p \in whole \cup before : HasMain(p)} IN
        /\ rows' = seen
        /\ overlooked' = closed \cup stop
        /\ warned' =
             {p \in seen : IsLine(p) /\ ~({"gps", "pps"} \subseteq files[p])}
             \cup WithoutImage((UNION {In(d) : d \in opened}) \ seen)
  BY <1>1
<1>3. \A p \in Products : p \in In(home[p])
  BY DEF In
<1>4. \A p \in rows' : HasMain(p)
  BY <1>2
<1>5. ASSUME NEW p \in Products, files[p] # {}, home[p][1] = root,
             home[p] \notin overlooked'
      PROVE  home[p] \in opened /\ home[p] \notin stop
  BY <1>2, <1>5
<1>6. ASSUME NEW p \in Products \ rows', HasMain(p), home[p][1] = root,
             home[p] \notin overlooked'
      PROVE  FALSE
  <2>1. files[p] # {}
    BY <1>6 DEF HasMain
  <2>2. home[p] \in OtherSubdirs(opened, stop)
    BY <1>5, <1>6, <2>1 DEF OtherSubdirs
  <2>3. p \in whole
    BY <1>3, <2>2
  <2> QED BY <1>2, <1>6, <2>3
<1>7. ASSUME NEW p \in Products, files[p] \cap {"gps", "pps"} # {},
             "raw" \notin files[p], home[p][1] = root, home[p] \notin overlooked'
      PROVE  p \in warned'
  <2>1. home[p] \in opened
    BY <1>5, <1>7
  <2>2. "log" \notin files[p]
    BY <1>7 DEF LogsAreAlone, EndToEnd
  <2>3. ~HasMain(p)
    BY <1>7, <2>2 DEF HasMain
  <2>4. p \in UNION {In(d) : d \in opened}
    BY <1>3, <2>1
  <2>5. p \notin rows'
    BY <1>4, <2>3
  <2>6. p \in WithoutImage((UNION {In(d) : d \in opened}) \ rows')
    <3> DEFINE unlisted == (UNION {In(d) : d \in opened}) \ rows'
    <3>1. p \in unlisted
      BY <2>4, <2>5
    <3> HIDE DEF unlisted
    <3>2. p \in WithoutImage(unlisted)
      BY <1>7, <3>1 DEF WithoutImage
    <3> QED BY <3>2 DEF unlisted
  <2> QED BY <1>2, <2>6
<1> QED BY <1>4, <1>6, <1>7

LEMMA StartMatches == DiskInv /\ Start => DiskPart'
<1> SUFFICES ASSUME DiskInv, Start PROVE DiskPart'
  OBVIOUS
<1>0. TypeOK /\ HomesAreThere /\ LogsAreAlone /\ RecordedIsThere
  BY DEF DiskInv, TabInv
<1>1. /\ home' = home /\ files' = files /\ spared' = spared /\ current' = current
      /\ recording' = "no" /\ dirs \subseteq dirs' /\ dailyDir'[1] = rootDir
      /\ ScanDirs({d \in dirs' : d[1] = Root(rootDir)})
  BY <1>0 DEF Start, RecordedIsThere
<1>2. HomesAreThere' /\ LogsAreAlone' /\ RecordedIsThere'
  BY <1>0, <1>1 DEF HomesAreThere, LogsAreAlone, RecordedIsThere, Start
<1>3. \A p \in Products : files[p] # {} /\ home[p][1] = Root(rootDir) =>
        home[p] \in {d \in dirs' : d[1] = Root(rootDir)}
  BY <1>0, <1>1 DEF HomesAreThere
<1>4. /\ \A p \in rows' : HasMain(p)
      /\ \A p \in Products \ rows' :
           HasMain(p) /\ home[p][1] = Root(rootDir) => home[p] \in overlooked'
      /\ \A p \in Products :
           files[p] \cap {"gps", "pps"} # {} /\ "raw" \notin files[p]
             /\ home[p][1] = Root(rootDir) => p \in warned' \/ home[p] \in overlooked'
  BY <1>0, <1>1, <1>3, ScanMatches
<1>5. RowsMatchDisk'
  BY <1>1, <1>4 DEF RowsMatchDisk, HasMain
<1>6. OrphansMentioned'
  BY <1>1, <1>4 DEF OrphansMentioned
<1> QED BY <1>2, <1>5, <1>6 DEF DiskPart, TabMatchesDisk

LEMMA ExitMatches == DiskInv /\ (Exit \/ Crash) => DiskPart'
<1> SUFFICES ASSUME DiskInv, Exit \/ Crash PROVE DiskPart'
  OBVIOUS
<1>0. TypeOK /\ HomesAreThere /\ LogsAreAlone
  BY DEF DiskInv, TabInv
<1>1. TabMatchesDisk' /\ RecordedIsThere'
  BY DEF Exit, Crash, Forgotten, TabMatchesDisk, RecordedIsThere
<1>2. CASE UNCHANGED <<home, files, dirs>>
  BY <1>0, <1>1, <1>2 DEF DiskPart, HomesAreThere, LogsAreAlone
<1>3. CASE /\ Exit /\ Dir(dailyDir) \in dirs
           /\ home' = [home EXCEPT ![NextNew] = Dir(dailyDir)]
           /\ files' = [files EXCEPT ![NextNew] = EndToEnd]
  <2>1. dirs' = dirs /\ NextNew \in Products /\ << >> \notin dirs
    BY <1>0, <1>3, FreshProduct, NoHome DEF Exit, TypeOK
  <2>2. home'[NextNew] = Dir(dailyDir) /\ files'[NextNew] = EndToEnd
    BY <1>0, <1>3, <2>1 DEF TypeOK
  <2>3. \A p \in Products \ {NextNew} : home'[p] = home[p] /\ files'[p] = files[p]
    BY <1>0, <1>3 DEF TypeOK
  <2> QED BY <1>0, <1>1, <1>3, <2>1, <2>2, <2>3 DEF DiskPart, HomesAreThere, LogsAreAlone
<1> QED BY <1>2, <1>3 DEF Exit, Crash, diskVars

(* A product that is made is none that has a row or is recorded.            *)
LEMMA FreshIsNew ==
  ASSUME DiskInv, NEW p \in Fresh, phase = "running"
  PROVE  p \in Products /\ files[p] = {} /\ p \notin rows
<1>1. p \in Products /\ home[p] = << >>
  BY DEF Fresh, Products
<1>2. files[p] = {}
  BY <1>1 DEF DiskInv, HomesAreThere
<1> QED BY <1>1, <1>2 DEF DiskInv, TabMatchesDisk, RowsMatchDisk, HasMain

LEMMA RecordMatches == DiskInv /\ Record => DiskPart'
<1> SUFFICES ASSUME DiskInv, Record PROVE DiskPart'
  OBVIOUS
<1>0. /\ TypeOK /\ HomesAreThere /\ LogsAreAlone /\ RecordedIsThere
      /\ RowsMatchDisk /\ OrphansMentioned
  BY DEF DiskInv, TabInv, TabMatchesDisk, Record
<1>1. /\ NextNew \in Products /\ files[NextNew] = {} /\ NextNew \notin rows
      /\ recording = "no"
  BY FreshProduct, FreshIsNew DEF Record
<1>2. UNCHANGED <<phase, dailyDir, dirs, rows, overlooked, warned>>
  BY DEF Record, setVars, scanVars
<1>3. CASE UNCHANGED <<home, files, recording, current, spared>>
  BY <1>2, <1>3, DiskStays DEF DiskInv, DiskPart
<1>4. ASSUME NEW made, "log" \notin made, Dir(dailyDir) \in dirs, spared \subseteq spared',
             home' = [home EXCEPT ![NextNew] = Dir(dailyDir)],
             files' = [files EXCEPT ![NextNew] = made],
             \/ /\ made = LineKinds /\ recording' = "yes" /\ current' = NextNew
             \/ recording' = recording /\ NextNew \in spared'
      PROVE  DiskPart'
  <2>1. /\ << >> \notin dirs
        /\ home'[NextNew] = Dir(dailyDir) /\ files'[NextNew] = made
        /\ \A p \in Products \ {NextNew} : home'[p] = home[p] /\ files'[p] = files[p]
    BY <1>0, <1>1, <1>4, NoHome DEF TypeOK
  <2>2. HomesAreThere'
    BY <1>0, <1>2, <1>4, <2>1 DEF HomesAreThere
  <2>3. LogsAreAlone'
    BY <1>0, <1>4, <2>1 DEF LogsAreAlone
  <2>4. RecordedIsThere'
    BY <1>0, <1>1, <1>2, <1>4, <2>1 DEF RecordedIsThere, Record
  <2>5. \A p \in rows : p # NextNew /\ files'[p] = files[p] /\ p \in Products
    BY <1>0, <1>1, <2>1 DEF TypeOK
  <2>6. RowsMatchDisk'
    <3>1. \A p \in rows' : HasMain(p)' /\ (recording' # "no" => p # current')
      BY <1>0, <1>1, <1>2, <1>4, <2>5 DEF RowsMatchDisk, HasMain
    <3>2. ASSUME NEW p \in Products \ rows', HasMain(p)', home'[p][1] = Root(dailyDir'[1])
          PROVE  \/ recording' # "no" /\ p = current'
                 \/ p \in spared'
                 \/ home'[p] \in overlooked'
      <4>1. CASE p = NextNew
        BY <1>4, <4>1
      <4>2. CASE p # NextNew
        BY <1>0, <1>1, <1>2, <1>4, <2>1, <3>2, <4>2 DEF RowsMatchDisk, HasMain
      <4> QED BY <4>1, <4>2
    <3> QED BY <3>1, <3>2 DEF RowsMatchDisk
  <2>7. OrphansMentioned'
    <3> SUFFICES ASSUME NEW p \in Products, files'[p] \cap {"gps", "pps"} # {},
                        "raw" \notin files'[p], home'[p][1] = Root(dailyDir'[1])
                 PROVE  p \in warned' \cup spared' \/ home'[p] \in overlooked'
      BY DEF OrphansMentioned
    <3>1. CASE p = NextNew
      BY <1>4, <2>1, <3>1 DEF LineKinds
    <3>2. CASE p # NextNew
      BY <1>0, <1>2, <1>4, <2>1, <3>2 DEF OrphansMentioned
    <3> QED BY <3>1, <3>2
  <2> QED BY <2>2, <2>3, <2>4, <2>6, <2>7 DEF DiskPart, TabMatchesDisk
<1>5. CASE /\ Dir(dailyDir) \in dirs
           /\ home' = [home EXCEPT ![NextNew] = Dir(dailyDir)]
           /\ files' = [files EXCEPT ![NextNew] = LineKinds]
           /\ recording' = "yes" /\ current' = NextNew /\ spared' = spared
  BY <1>4, <1>5 DEF LineKinds
<1>6. CASE /\ Dir(dailyDir) \in dirs
           /\ home' = [home EXCEPT ![NextNew] = Dir(dailyDir)]
           /\ \E made \in {{}, {"raw"}, {"raw", "hdr"}, {"raw", "hdr", "gps"}} :
                files' = [files EXCEPT ![NextNew] = made]
           /\ spared' = spared \cup {NextNew} /\ recording' = recording
  <2>1. PICK made \in {{}, {"raw"}, {"raw", "hdr"}, {"raw", "hdr", "gps"}} :
          files' = [files EXCEPT ![NextNew] = made]
    BY <1>6
  <2>2. "log" \notin made
    OBVIOUS
  <2> QED BY <1>4, <1>6, <2>1, <2>2
<1> QED BY <1>3, <1>5, <1>6 DEF Record

LEMMA EndMatches == DiskInv /\ EndRecording => DiskPart'
<1> SUFFICES ASSUME DiskInv, EndRecording PROVE DiskPart'
  OBVIOUS
<1>1. /\ UNCHANGED <<phase, dailyDir, home, files, dirs, rows, current, spared,
                     overlooked, warned>>
      /\ phase = "running" /\ recording = "yes" /\ recording' = "ended"
  BY DEF EndRecording, setVars, tabVars, scanVars
<1>2. HomesAreThere' /\ LogsAreAlone' /\ RecordedIsThere'
  BY <1>1 DEF DiskInv, HomesAreThere, LogsAreAlone, RecordedIsThere
<1>3. TabMatchesDisk'
  BY <1>1 DEF DiskInv, TabMatchesDisk, RowsMatchDisk, OrphansMentioned, HasMain
<1> QED BY <1>2, <1>3 DEF DiskPart

(* Files of some products that have no row any more, or do not get one, are *)
(* removed as far as the file system does it.                               *)
LEMMA RemovedMatches ==
  ASSUME DiskInv, phase = "running", NEW ps \in SUBSET Products,
         \/ Unlink(ps)
         \/ ps = {} /\ UNCHANGED <<files, spared>>,
         UNCHANGED <<phase, dailyDir, home, dirs, current, overlooked, warned>>,
         rows' = rows \ ps,
         \/ recording' = recording /\ ps \subseteq rows
         \/ recording = "yes" /\ recording' = "aborted" /\ ps = {current}
  PROVE  DiskPart'
<1>0. /\ TypeOK /\ HomesAreThere /\ LogsAreAlone /\ RecordedIsThere
      /\ RowsMatchDisk /\ OrphansMentioned /\ CurrentIsProduct
  BY DEF DiskInv, TabInv, TabMatchesDisk
<1>1. /\ spared \subseteq spared'
      /\ \A p \in Products :
           /\ files'[p] \subseteq files[p]
           /\ p \notin ps => files'[p] = files[p]
           /\ p \in ps => files'[p] = {} \/ p \in spared'
  <2>1. CASE Unlink(ps)
    BY <1>0, <2>1, UnlinkLeaves
  <2>2. CASE ps = {} /\ UNCHANGED <<files, spared>>
    BY <2>2
  <2> QED BY <2>1, <2>2
<1>2. HomesAreThere'
  <2>1. ASSUME NEW p \in Products
        PROVE  /\ files'[p] # {} => home'[p] \in dirs'
               /\ home'[p] = << >> => files'[p] = {}
    <3>1. files'[p] \subseteq files[p]
      BY <1>1
    <3>2. /\ files[p] # {} => home[p] \in dirs
          /\ home[p] = << >> => files[p] = {}
      BY <1>0 DEF HomesAreThere
    <3> QED BY <3>1, <3>2
  <2> QED BY <2>1 DEF HomesAreThere
<1>3. LogsAreAlone'
  <2>1. ASSUME NEW p \in Products, "log" \in files'[p] PROVE files'[p] = EndToEnd
    BY <1>0, <1>1, <2>1 DEF LogsAreAlone, EndToEnd
  <2> QED BY <2>1 DEF LogsAreAlone
<1>4. RecordedIsThere'
  <2>1. CASE recording' = recording /\ ps \subseteq rows
    <3>1. recording # "no" => current \in Products /\ current \notin ps
      BY <1>0, <2>1 DEF RowsMatchDisk, CurrentIsProduct
    <3> QED BY <1>0, <1>1, <2>1, <3>1 DEF RecordedIsThere
  <2>2. CASE recording = "yes" /\ recording' = "aborted" /\ ps = {current}
    BY <1>0, <1>1, <2>2 DEF RecordedIsThere, CurrentIsProduct
  <2> QED BY <2>1, <2>2
<1>5. RowsMatchDisk'
  <2>1. ASSUME NEW p \in rows'
        PROVE  HasMain(p)' /\ (recording' # "no" => p # current')
    <3>1. p \in rows /\ p \notin ps /\ p \in Products
      BY <1>0 DEF TypeOK
    <3>2. files'[p] = files[p]
      BY <1>1, <3>1
    <3>3. HasMain(p) /\ (recording # "no" => p # current)
      BY <1>0, <3>1 DEF RowsMatchDisk
    <3>4. recording' # "no" => recording # "no"
      OBVIOUS
    <3> QED BY <3>2, <3>3, <3>4 DEF HasMain
  <2>2. ASSUME NEW p \in Products \ rows', HasMain(p)', home'[p][1] = Root(dailyDir'[1])
        PROVE  \/ recording' # "no" /\ p = current'
               \/ p \in spared'
               \/ home'[p] \in overlooked'
    <3>1. CASE p \in ps
      BY <1>1, <2>2, <3>1 DEF HasMain
    <3>2. CASE p \notin ps
      <4>1. files'[p] = files[p] /\ p \notin rows
        BY <1>1, <3>2
      <4>2. \/ recording # "no" /\ p = current
            \/ p \in spared
            \/ home[p] \in overlooked
        BY <1>0, <2>2, <4>1 DEF RowsMatchDisk, HasMain
      <4>3. recording # "no" => recording' # "no"
        OBVIOUS
      <4> QED BY <1>1, <4>2, <4>3
    <3> QED BY <3>1, <3>2
  <2> QED BY <2>1, <2>2 DEF RowsMatchDisk
<1>6. OrphansMentioned'
  <2> SUFFICES ASSUME NEW p \in Products, files'[p] \cap {"gps", "pps"} # {},
                      "raw" \notin files'[p], home'[p][1] = Root(dailyDir'[1])
               PROVE  p \in warned' \cup spared' \/ home'[p] \in overlooked'
    BY DEF OrphansMentioned
  <2>1. CASE p \in ps
    BY <1>1, <2>1
  <2>2. CASE p \notin ps
    BY <1>0, <1>1, <2>2 DEF OrphansMentioned
  <2> QED BY <2>1, <2>2
<1> QED BY <1>2, <1>3, <1>4, <1>5, <1>6 DEF DiskPart, TabMatchesDisk

LEMMA AbortMatches == DiskInv /\ EndAborted => DiskPart'
<1> SUFFICES ASSUME DiskInv, EndAborted PROVE DiskPart'
  OBVIOUS
<1>1. current \in Products /\ current \notin rows
  BY DEF DiskInv, TabInv, CurrentIsProduct, TabMatchesDisk, RowsMatchDisk, EndAborted
<1>2. {current} \in SUBSET Products /\ rows \ {current} = rows
  BY <1>1
<1>3. /\ Unlink({current})
      /\ UNCHANGED <<phase, dailyDir, home, dirs, current, overlooked, warned>>
      /\ rows' = rows /\ phase = "running"
      /\ recording = "yes" /\ recording' = "aborted"
  BY DEF EndAborted, setVars, tabVars, scanVars
<1> QED BY <1>2, <1>3, RemovedMatches

LEMMA ConfirmMatches == DiskInv /\ Confirm => DiskPart'
<1> SUFFICES ASSUME DiskInv, Confirm PROVE DiskPart'
  OBVIOUS
<1>1. selected \in SUBSET Products /\ selected \subseteq rows
  BY DEF DiskInv, TabInv, TypeOK
<1>2. /\ Unlink(selected) \/ (selected = {} /\ UNCHANGED <<files, spared>>)
      /\ UNCHANGED <<phase, dailyDir, home, dirs, current, overlooked, warned>>
      /\ rows' = rows \ selected /\ phase = "running" /\ recording' = recording
  BY DEF Confirm, ToErase, setVars, scanVars
<1> QED BY <1>1, <1>2, RemovedMatches

(* addRecording lists what was recorded, unless it was aborted.             *)
LEMMA UpdateMatches == DiskInv /\ UpdateControls => DiskPart'
<1> SUFFICES ASSUME DiskInv, UpdateControls PROVE DiskPart'
  OBVIOUS
<1>0. /\ TypeOK /\ HomesAreThere /\ LogsAreAlone /\ RecordedIsThere
      /\ RowsMatchDisk /\ OrphansMentioned
  BY DEF DiskInv, TabInv, TabMatchesDisk, UpdateControls
<1>1. /\ UNCHANGED <<phase, dailyDir, home, files, dirs, spared, overlooked, warned>>
      /\ recording' = "no" /\ recording \in {"ended", "aborted"}
      /\ rows' = IF recording = "ended" THEN rows \cup {current} ELSE rows
  BY DEF UpdateControls, setVars, diskVars, scanVars
<1>2. HomesAreThere' /\ LogsAreAlone' /\ RecordedIsThere'
  BY <1>0, <1>1 DEF HomesAreThere, LogsAreAlone, RecordedIsThere
<1>3. recording = "ended" => HasMain(current)
  BY <1>0 DEF RecordedIsThere, HasMain, LineKinds
<1>4. recording = "aborted" => ~HasMain(current) \/ current \in spared
  BY <1>0 DEF RecordedIsThere, HasMain
<1>5. \A p : HasMain(p)' <=> HasMain(p)
  BY <1>1 DEF HasMain
<1>6. \A p \in rows' : HasMain(p)
  BY <1>0, <1>1, <1>3 DEF RowsMatchDisk
<1>7. ASSUME NEW p \in Products \ rows', HasMain(p), home[p][1] = Root(dailyDir[1])
      PROVE  p \in spared \/ home[p] \in overlooked
  BY <1>0, <1>1, <1>4, <1>7 DEF RowsMatchDisk
<1>8. RowsMatchDisk'
  BY <1>1, <1>5, <1>6, <1>7 DEF RowsMatchDisk
<1>9. OrphansMentioned'
  BY <1>0, <1>1 DEF OrphansMentioned
<1> QED BY <1>2, <1>8, <1>9 DEF DiskPart, TabMatchesDisk

(* Only empty directories are removed.                                      *)
LEMMA PruneMatches == DiskInv /\ Prune => DiskPart'
<1> SUFFICES ASSUME DiskInv, Prune PROVE DiskPart'
  OBVIOUS
<1>1. /\ UNCHANGED <<phase, dailyDir, home, files, rows, recording, current, spared,
                     overlooked, warned>>
      /\ dirs' = dirs \ EmptyDirs(files)
  BY DEF Prune, setVars, scanVars
<1>2. \A p \in Products : files[p] # {} => home[p] \notin EmptyDirs(files)
  BY DEF EmptyDirs, In
<1>3. HomesAreThere'
  BY <1>1, <1>2 DEF DiskInv, HomesAreThere
<1>4. LogsAreAlone' /\ RecordedIsThere'
  BY <1>1 DEF DiskInv, LogsAreAlone, RecordedIsThere
<1>5. TabMatchesDisk'
  BY <1>1 DEF DiskInv, TabMatchesDisk, RowsMatchDisk, OrphansMentioned, HasMain
<1> QED BY <1>3, <1>4, <1>5 DEF DiskPart

LEMMA NextMatches == DiskInv /\ [Next]_vars => DiskInv'
<1> SUFFICES ASSUME DiskInv, [Next]_vars PROVE DiskPart'
  BY NextKeeps DEF DiskInv, DiskPart
<1>0. DiskPart
  BY DEF DiskInv, DiskPart
<1>1. CASE Midnight \/ Select \/ PressDelete \/ Cancel \/ DoNotPrune \/ ChangeRoot
           \/ UNCHANGED vars
  <2>1. UNCHANGED <<phase, dailyDir, home, files, rows, recording, current, spared,
                    overlooked, warned>>
    BY <1>1 DEF Midnight, Select, PressDelete, Cancel, DoNotPrune, ChangeRoot, vars,
                setVars, diskVars, tabVars, saidVars, scanVars
  <2>2. dirs \subseteq dirs'
    BY <1>1 DEF Midnight, Select, PressDelete, Cancel, DoNotPrune, ChangeRoot, vars,
                diskVars
  <2> QED BY <1>0, <2>1, <2>2, DiskStays
<1>2. CASE Start \/ Exit \/ Crash
  BY <1>2, StartMatches, ExitMatches
<1>3. CASE Record \/ EndRecording \/ EndAborted \/ UpdateControls
  BY <1>3, RecordMatches, EndMatches, AbortMatches, UpdateMatches
<1>4. CASE Confirm \/ Prune
  BY <1>4, ConfirmMatches, PruneMatches
<1> QED BY <1>1, <1>2, <1>3, <1>4 DEF Next

\* scanDirs, addRecording and onDeleteButton keep the rows and the disk in step,
\* over starts, exits, crashes, refusals of the file system and recordings that
\* come in while the tab asks, for any roots, products and bounds.
THEOREM TabIsDisk == Spec => []TabMatchesDisk
<1>1. Init => DiskInv
  BY InitTab, InitDisk DEF DiskInv, DiskPart
<1>2. DiskInv => TabMatchesDisk
  BY DEF DiskInv
<1> QED BY <1>1, <1>2, NextMatches, PTL DEF Spec
=============================================================================
