---------------------------- MODULE RecordingsTab ----------------------------
(***************************************************************************)
(* The Recordings tab (class RecordingsTab), with the directories it       *)
(* scans, the settings that name them, and the recordings, the FMS and the *)
(* exits that come in between.                                             *)
(*                                                                         *)
(* The tab is filled once, by scanDirs, and then follows the recordings.   *)
(* Delete asks twice, each time in a loop of its own: the user can do      *)
(* nothing else there, but a recording of the FMS can start, end and be    *)
(* listed.  The files of a product are known by their kinds, a directory   *)
(* by its root and its day; settings know a root by how it is spelled.     *)
(***************************************************************************)
EXTENDS Integers, FiniteSets

CONSTANTS
  Spellings,   \* names of root directories the settings can hold
  Root(_),     \* the directory a name stands for
  Old,         \* products of earlier lives, and
  Foreign,     \* those whose names do not tell a start time
  New,         \* products that can be recorded: a set of numbers
  MaxDay,      \* bound on the days
  MaxLives,    \* bound on starts of the program
  MaxChanges,  \* bound on changes of the root
  MaxFaults    \* bound on what the file system refuses

ASSUME RecordingsTabAssumption ==
  /\ Foreign \subseteq Old /\ New \subseteq Nat /\ Old \cap New = {}
  /\ MaxDay \in Nat \ {0} /\ MaxLives \in Nat
  /\ MaxChanges \in Nat /\ MaxFaults \in Nat

VARIABLES
  phase,       \* "off" or "running"
  day,         \* the date
  savedRoot,   \* the product root directory in .ngdcs
  rootDir,     \* currentProductRootDir
  dailyDir,    \* appFrame::dailyDir, as spelled
  dirs,        \* the directories of days there are
  home,        \* of each product made: its directory
  files,       \* of each product: the kinds of its files there are
  rows,        \* m_model
  selected,    \* m_selection
  listOn,      \* m_list is sensitive
  deleteOn,    \* m_deleteButton is sensitive
  dialog,      \* "none", "confirm" or "prune": the question in front
  recording,   \* "no", "yes", "ended": its callback is on its way
  current,     \* the product being recorded, aborted or not
  announced,   \* history: what the user was told would be deleted
  interrupted, \* history: since then a recording has begun
  spared,      \* history: products of which a file was not removed or not made
  overlooked,  \* history: directories the last scan has not gone through
  warned,      \* history: products the last scan has warned about
  respelled,   \* history: pruned while the root was spelled differently
  lives, changes, faults \* counters of the bounds

diskVars == <<dirs, home, files>>
tabVars == <<rows, selected, listOn, deleteOn, dialog>>
setVars == <<phase, savedRoot, rootDir, dailyDir>>
saidVars == <<announced, interrupted>>
scanVars == <<overlooked, warned>>
vars == <<day, setVars, diskVars, tabVars, recording, current, saidVars, scanVars,
          spared, respelled, lives, changes, faults>>

Products == Old \cup New
Dirs == {Root(s) : s \in Spellings} \X (1..MaxDay)
LineKinds == {"raw", "hdr", "gps", "pps"}
EndToEnd == {"log"}

\* The file that a row of the tab stands for
HasMain(p) == files[p] \cap {"raw", "log"} # {}
IsLine(p) == "log" \notin files[p]

Fresh == {p \in New : home[p] = << >>}
NextNew == CHOOSE p \in Fresh : TRUE

\* The directory that spelled names, and that of today
Dir(spelled) == <<Root(spelled[1]), spelled[2]>>
Today(root) == <<root, day>>

Fault == faults < MaxFaults /\ faults' = faults + 1

\* files with p's kinds removed, all of them or, ignored, all but one
Unlink(ps) ==
  \/ /\ files' = [p \in Products |-> IF p \in ps THEN {} ELSE files[p]]
     /\ UNCHANGED <<spared, faults>>
  \/ /\ Fault
     /\ \E p \in ps : \E kind \in files[p] :
          /\ files' = [q \in Products |->
                         IF q = p THEN {kind}
                         ELSE IF q \in ps THEN {} ELSE files[q]]
          /\ spared' = spared \cup {p}

\* What a program that is not running, or has just started, has in memory
Forgotten ==
  /\ rows' = {} /\ selected' = {} /\ listOn' = TRUE /\ deleteOn' = FALSE
  /\ dialog' = "none" /\ recording' = "no" /\ current' = 0
  /\ announced' = {} /\ interrupted' = FALSE
  /\ spared' = {} /\ overlooked' = {} /\ warned' = {} /\ respelled' = FALSE

\* What may be on the disks: flight lines of the first day, their images or
\* GPS data missing here or there.
Init ==
  /\ phase = "off" /\ day = 1
  /\ savedRoot \in Spellings /\ rootDir = savedRoot
  /\ dailyDir = <<savedRoot, day>>
  /\ home = [p \in Products |->
               IF p \in Old THEN <<Root(savedRoot), 1>> ELSE << >>]
  /\ files \in [Products -> {{}, LineKinds, LineKinds \ {"raw"},
                                          LineKinds \ {"gps"}}]
  /\ \A p \in Products : files[p] = {} <=> p \in New
  /\ dirs = {home[p] : p \in Old}
  /\ rows = {} /\ selected = {} /\ listOn = TRUE /\ deleteOn = FALSE
  /\ dialog = "none" /\ recording = "no" /\ current = 0
  /\ announced = {} /\ interrupted = FALSE
  /\ spared = {} /\ overlooked = {} /\ warned = {}
  /\ respelled = FALSE /\ lives = 0 /\ changes = 0 /\ faults = 0

-----------------------------------------------------------------------------
(* The program starts, is left or dies.                                    *)

In(d) == {p \in Products : home[p] = d}

\* Faulty: the first undecodable name ends the scan of all directories.
AllSubdirs(scanned, stop) == IF stop = {} THEN scanned ELSE {}

\* The directories that are still gone through when names in those of stop
\* cannot be decoded: the break leaves one directory.
OtherSubdirs(scanned, stop) == scanned \ stop

\* Faulty: only GPS files are looked for.
GpsWithoutImage(unlisted) == {p \in unlisted : "gps" \in files[p]}

\* Of the products not listed, those that have left GPS or PPS data
WithoutImage(unlisted) == {p \in unlisted : files[p] \cap {"gps", "pps"} # {}}

\* scanDirs.  readdir gives the entries in any order; a directory may refuse
\* to be opened.
ScanDirs(scanned) ==
  \E closed \in {{}} \cup {{d} : d \in scanned} :
    /\ IF closed = {} THEN UNCHANGED faults ELSE Fault
    /\ LET opened == scanned \ closed
           stop == {d \in opened : \E p \in In(d) \cap Foreign : HasMain(p)}
           whole == UNION {In(d) : d \in OtherSubdirs(opened, stop)}
           partly == (UNION {In(d) : d \in stop}) \ Foreign
       IN  \E before \in SUBSET partly :
             LET seen == {p \in whole \cup before : HasMain(p)} IN
             /\ rows' = seen
             /\ overlooked' = closed \cup stop
             /\ warned' =
                  {p \in seen : IsLine(p) /\ ~({"gps", "pps"} \subseteq files[p])}
                  \cup WithoutImage((UNION {In(d) : d \in opened}) \ seen)

\* appFrame::init and the tab's constructor
Start ==
  /\ phase = "off" /\ lives < MaxLives /\ lives' = lives + 1
  /\ phase' = "running"
  /\ dailyDir' = <<rootDir, day>>
  /\ dirs' = dirs \cup {Today(Root(rootDir))}
  /\ ScanDirs({d \in dirs' : d[1] = Root(rootDir)})
  /\ UNCHANGED <<day, savedRoot, rootDir, home, files, selected, listOn, deleteOn,
                 dialog, recording, current, saidVars, spared, respelled, changes>>

\* handleExitRequest saves the settings and cleanupForExit the end-to-end
\* files, if there is a directory to put them in.
Exit ==
  /\ phase = "running" /\ recording = "no" /\ dialog = "none" /\ Fresh # {}
  /\ phase' = "off" /\ savedRoot' = rootDir
  /\ IF Dir(dailyDir) \in dirs
     THEN /\ home' = [home EXCEPT ![NextNew] = Dir(dailyDir)]
          /\ files' = [files EXCEPT ![NextNew] = EndToEnd]
     ELSE UNCHANGED <<home, files>>
  /\ Forgotten
  /\ UNCHANGED <<day, rootDir, dailyDir, dirs, lives, changes, faults>>

Crash ==
  /\ phase = "running" /\ phase' = "off" /\ rootDir' = savedRoot
  /\ Forgotten
  /\ UNCHANGED <<day, savedRoot, dailyDir, diskVars, lives, changes, faults>>

Midnight ==
  /\ day < MaxDay /\ day' = day + 1
  /\ UNCHANGED <<setVars, diskVars, tabVars, recording, current, saidVars, scanVars,
                 spared, respelled, lives, changes, faults>>

-----------------------------------------------------------------------------
(* A recording, begun by the user or, at any time, by the FMS              *)

\* recordButtonWork: openFiles, and with it leaveIdleState, which disables
\* changes of the list.
Record ==
  /\ phase = "running" /\ recording = "no" /\ Fresh # {}
  /\ \/ /\ Dir(dailyDir) \in dirs
        /\ home' = [home EXCEPT ![NextNew] = Dir(dailyDir)]
        /\ files' = [files EXCEPT ![NextNew] = LineKinds]
        /\ recording' = "yes" /\ current' = NextNew
        /\ selected' = {} /\ listOn' = FALSE /\ deleteOn' = FALSE
        /\ interrupted' = (dialog = "confirm")
        /\ UNCHANGED <<spared, faults>>
     \/ /\ Dir(dailyDir) \in dirs /\ Fault
        /\ home' = [home EXCEPT ![NextNew] = Dir(dailyDir)]
        /\ \E made \in {{}, {"raw"}, {"raw", "hdr"}, {"raw", "hdr", "gps"}} :
             files' = [files EXCEPT ![NextNew] = made]
        /\ spared' = spared \cup {NextNew}
        /\ UNCHANGED <<recording, current, selected, listOn, deleteOn, interrupted>>
     \/ /\ Dir(dailyDir) \notin dirs
        /\ UNCHANGED <<home, files, recording, current, selected, listOn, deleteOn,
                       interrupted, spared, faults>>
  /\ UNCHANGED <<day, setVars, dirs, rows, dialog, announced, scanVars, respelled,
                 lives, changes>>

\* enterIdleState on the data thread; an abort removes the files.
EndRecording ==
  /\ phase = "running" /\ recording = "yes" /\ recording' = "ended"
  /\ UNCHANGED <<files, spared, faults>>
  /\ UNCHANGED <<day, setVars, dirs, home, tabVars, current, saidVars, scanVars,
                 respelled, lives, changes>>

EndAborted ==
  /\ phase = "running" /\ recording = "yes" /\ recording' = "aborted"
  /\ Unlink({current})
  /\ UNCHANGED <<day, setVars, dirs, home, tabVars, current, saidVars, scanVars,
                 respelled, lives, changes>>

\* recordControlsUpdateWork, which calls addRecording and
\* enableRecordingsChanges
UpdateControls ==
  /\ phase = "running" /\ recording \in {"ended", "aborted"} /\ recording' = "no"
  /\ rows' = IF recording = "ended" THEN rows \cup {current} ELSE rows
  /\ listOn' = TRUE /\ deleteOn' = FALSE /\ current' = 0
  /\ UNCHANGED <<day, setVars, diskVars, selected, dialog, saidVars, scanVars,
                 spared, respelled, lives, changes, faults>>

-----------------------------------------------------------------------------
(* The user                                                                *)

Free == phase = "running" /\ dialog = "none"

\* onSelection: every change enables Delete, one to nothing too.
Select ==
  /\ Free /\ listOn
  /\ \E chosen \in SUBSET rows : chosen # selected /\ selected' = chosen
  /\ deleteOn' = TRUE
  /\ UNCHANGED <<day, setVars, diskVars, rows, listOn, dialog, recording, current,
                 saidVars, scanVars, spared, respelled, lives, changes, faults>>

\* onDeleteButton up to its first question.  With nothing selected it tells
\* of an internal error and changes nothing.
PressDelete ==
  /\ Free /\ deleteOn /\ selected # {}
  /\ dialog' = "confirm" /\ announced' = selected /\ interrupted' = FALSE
  /\ UNCHANGED <<day, setVars, diskVars, rows, selected, listOn, deleteOn,
                 recording, current, scanVars, spared, respelled, lives, changes, faults>>

Cancel ==
  /\ phase = "running" /\ dialog = "confirm" /\ dialog' = "none"
  /\ announced' = {} /\ interrupted' = FALSE
  /\ UNCHANGED <<day, setVars, diskVars, rows, selected, listOn, deleteOn,
                 recording, current, scanVars, spared, respelled, lives, changes, faults>>

\* Faulty: the iterator that erase returns is advanced, too.
EveryOther == {p \in selected : \A q \in selected : p <= q}

\* The rows the second loop erases: those that are selected by then
ToErase == selected

\* Faulty: today's directory is not left out.
EmptyDirsAll(left) ==
  {d \in dirs : d[1] = Root(rootDir) /\ \A p \in In(d) : left[p] = {}}

\* The empty directories when the files of left are there.  checkForEmptyDirs
\* compares names, not directories.
EmptyDirs(left) ==
  {d \in dirs : /\ d[1] = Root(rootDir)
                /\ \A p \in In(d) : left[p] = {}
                /\ <<rootDir, d[2]>> # dailyDir}

\* The rest of onDeleteButton, up to its second question if it has one
Confirm ==
  /\ phase = "running" /\ dialog = "confirm"
  /\ IF ToErase = {} THEN UNCHANGED <<files, spared, faults>> ELSE Unlink(ToErase)
  /\ rows' = rows \ ToErase /\ selected' = selected \ ToErase /\ deleteOn' = FALSE
  /\ dialog' = IF EmptyDirs(files') # {} THEN "prune" ELSE "none"
  /\ announced' = {} /\ interrupted' = FALSE
  /\ UNCHANGED <<day, setVars, dirs, home, listOn, recording, current, scanVars,
                 respelled, lives, changes>>

\* The root of dailyDir has another name in the settings by now.
Respelled == rootDir # dailyDir[1] /\ Root(rootDir) = Root(dailyDir[1])

Prune ==
  /\ phase = "running" /\ dialog = "prune" /\ dialog' = "none"
  /\ dirs' = dirs \ EmptyDirs(files)
  /\ respelled' = (respelled \/ Respelled)
  /\ UNCHANGED <<day, setVars, home, files, rows, selected, listOn, deleteOn,
                 recording, current, saidVars, scanVars, spared, lives, changes, faults>>

DoNotPrune ==
  /\ phase = "running" /\ dialog = "prune" /\ dialog' = "none"
  /\ UNCHANGED <<day, setVars, diskVars, rows, selected, listOn, deleteOn,
                 recording, current, saidVars, scanVars, spared, respelled,
                 lives, changes, faults>>

\* SettingsTab::onProductRootDirChange; the directory of the day is made under
\* the new root, too, and dailyDir stays what it is.  The file chooser may have
\* been opened before a recording has begun.
ChangeRoot ==
  /\ Free /\ changes < MaxChanges /\ changes' = changes + 1
  /\ \E s \in Spellings \ {rootDir} :
       /\ rootDir' = s
       /\ dirs' = dirs \cup {Today(Root(s))}
  /\ UNCHANGED <<phase, day, savedRoot, dailyDir, home, files, tabVars, recording,
                 current, saidVars, scanVars, spared, respelled, lives, faults>>

Next ==
  \/ Start \/ Exit \/ Crash \/ Midnight
  \/ Record \/ EndRecording \/ EndAborted \/ UpdateControls
  \/ Select \/ PressDelete \/ Cancel \/ Confirm \/ Prune \/ DoNotPrune
  \/ ChangeRoot

Spec == Init /\ [][Next]_vars

-----------------------------------------------------------------------------
TypeOK ==
  /\ phase \in {"off", "running"} /\ day \in 1..MaxDay
  /\ savedRoot \in Spellings /\ rootDir \in Spellings
  /\ dailyDir \in Spellings \X (1..MaxDay)
  /\ files \in [Products -> SUBSET (LineKinds \cup EndToEnd)]
  /\ home \in [Products -> Dirs \cup {<< >>}]
  /\ dirs \subseteq Dirs /\ overlooked \subseteq Dirs
  /\ selected \subseteq rows /\ rows \subseteq Products
  /\ listOn \in BOOLEAN /\ deleteOn \in BOOLEAN
  /\ dialog \in {"none", "confirm", "prune"}
  /\ recording \in {"no", "yes", "ended", "aborted"}
  /\ current \in Products \cup {0}
  /\ announced \subseteq Products /\ interrupted \in BOOLEAN
  /\ spared \subseteq Products /\ warned \subseteq Products
  /\ respelled \in BOOLEAN /\ lives \in 0..MaxLives
  /\ changes \in 0..MaxChanges /\ faults \in 0..MaxFaults

\* What is deleted is what the user was told, all of it, although onDeleteButton
\* looks at the selection again after a question during which recordings come
\* and go; if one began, nothing is deleted.
AllOrNothing ==
  [][Confirm =>
       /\ rows \ rows' = (IF interrupted THEN {} ELSE announced)
       /\ {p \in Products : files'[p] # files[p]} \subseteq announced]_vars

\* A row has its file; and a flight line or an end-to-end file under the root
\* of the start has a row, unless it is being recorded, a file of it could not
\* be made or removed, or the scan has not gone through its directory.
RowsMatchDisk ==
  /\ \A p \in rows : HasMain(p) /\ (recording # "no" => p # current)
  /\ \A p \in Products \ rows :
       HasMain(p) /\ home[p][1] = Root(dailyDir[1]) =>
         \/ recording # "no" /\ p = current
         \/ p \in spared
         \/ home[p] \in overlooked

\* GPS or PPS data without their image: the scan has warned of them, or they
\* remain of what was aborted, deleted or not opened since.
OrphansMentioned ==
  \A p \in Products :
    files[p] \cap {"gps", "pps"} # {} /\ "raw" \notin files[p]
      /\ home[p][1] = Root(dailyDir[1]) =>
        p \in warned \cup spared \/ home[p] \in overlooked

\* The tab and the disk agree, over starts, crashes, failing calls and whatever
\* is done during the questions: scanDirs, addRecording and onDeleteButton keep
\* one row for each product there is, and what has no row is not left unsaid.
TabMatchesDisk == phase = "running" => RowsMatchDisk /\ OrphansMentioned

\* The directory that recordings go to is there as long as the program runs,
\* whatever is deleted and pruned, and whatever root the settings name then;
\* only the same root, spelled differently, makes the comparison of names fail.
DailyDirKept == phase = "running" => Dir(dailyDir) \in dirs \/ respelled
=============================================================================
