-------------------------- MODULE NetInfoFileProofs --------------------------
(***************************************************************************)
(* Proofs about module NetInfoFile, for any number of writers, any size of *)
(* a file, any inventories, and any number of faults, kills and changes:   *)
(* files are replaced whole and nobody's reader is disturbed, success is   *)
(* fresh, temporary files are removed, and addresses are at their ports.   *)
(***************************************************************************)
EXTENDS NetInfoFile, TLAPS

Steps == {"start", "source", "open", "check", "opendir", "mkdir", "reopen", "collect",
          "stat", "create", "write", "rename", "end"}

Results == {"idle", "running", "ok", "error", "killed"}

\* The functions of the writers are functions, an inode has parts and data.
Shape ==
  /\ pc \in [Writer -> Steps] /\ result \in [Writer -> Results]
  /\ DOMAIN data = Writer /\ data = [w \in Writer |-> data[w]]
  /\ before \in [Writer -> SUBSET Writer] /\ temps \subseteq Writer
  /\ file \in [File -> Writer \cup {"image", "none", "other"}]
  /\ DOMAIN inode \subseteq Writer \cup {"image"}
  /\ inode = [i \in DOMAIN inode |-> inode[i]]
  /\ \A i \in DOMAIN inode :
       inode[i].parts \in 0 .. Parts /\ inode[i] = [parts |-> inode[i].parts, data |-> inode[i].data]

\* Where a writer is and how it has fared go together.
Progress ==
  /\ \A w \in Writer : result[w] = "idle" <=> pc[w] = "start"
  /\ \A w \in Writer : result[w] \in {"ok", "error", "killed"} <=> pc[w] = "end"

\* An inode that is written is complete before it is renamed and has no name
\* until then, and what has a writer's name is what it has renamed.
Inodes ==
  /\ \A w \in Writer : pc[w] \in {"write", "rename"} => w \in DOMAIN inode
  /\ \A w \in Writer : pc[w] = "rename" => inode[w].parts = Parts
  /\ \A f \in File : file[f] \in Writer => pc[file[f]] = "end"
  /\ \A f \in File : file[f] \in DOMAIN inode => inode[file[f]].parts = Parts

\* A temporary file belongs to a writer that works on it or was killed.
Temporary ==
  \A w \in temps : result[w] = "killed" \/ pc[w] \in {"write", "rename"}

\* A writer has data once it has opened its source or collected them.
NoDataYet ==
  \A w \in Writer :
    /\ pc[w] = "collect" => w \notin GaudinetCalls
    /\ pc[w] \in {"source", "open"} => w \in GaudinetCalls
    /\ \/ pc[w] \in {"start", "source", "open"}
       \/ w \notin GaudinetCalls /\ pc[w] \in {"check", "opendir", "mkdir", "reopen", "collect"}
       => data[w] = NoData

\* Those that had ended before a writer began do not come back.
Fresh ==
  /\ \A w \in Writer : before[w] \subseteq Ended
  /\ SuccessIsFresh

FileInv == Shape /\ Progress /\ Inodes /\ Temporary /\ NoDataYet /\ Fresh

LEMMA FileInit == Init => FileInv
<1> SUFFICES ASSUME Init PROVE FileInv
  OBVIOUS
<1> USE DEF Init
<1>1. PICK image \in Images :
        file = image.file /\ inode = [i \in {"image"} |-> [parts |-> Parts, data |-> image.data]]
  OBVIOUS
<1>2. file \in [File -> {"image", "none", "other"}] /\ \A f \in File : file[f] \notin Writer
  BY <1>1, ImagesPlain DEF File
<1>3. Parts \in 0 .. Parts
  BY CallsBounded DEF BoundsNatural
<1>4. Shape
  BY <1>1, <1>2, <1>3 DEF Shape, Steps, Results
<1>5. Progress /\ Temporary /\ NoDataYet /\ Fresh
  BY DEF Progress, Temporary, NoDataYet, Fresh, SuccessIsFresh
<1>6. Inodes
  BY <1>1, <1>2 DEF Inodes
<1> QED
  BY <1>4, <1>5, <1>6 DEF FileInv

(***************************************************************************)
(* Most steps of a writer touch neither names nor inodes: they move on or  *)
(* end the call, and may give the writer its data.                         *)
(***************************************************************************)
Undisturbing(w, p, r, d) ==
  /\ pc' = [pc EXCEPT ![w] = p] /\ result' = [result EXCEPT ![w] = r]
  /\ data' = [data EXCEPT ![w] = d]
  /\ UNCHANGED <<file, temps, inode, before>>

LEMMA UndisturbingKeeps ==
  ASSUME FileInv, NEW w \in Writer, NEW p \in Steps, NEW r \in Results, NEW d,
         Undisturbing(w, p, r, d), result[w] = "running",
         p \notin {"start", "write", "rename"}, r # "idle", p = "end" <=> r # "running",
         pc[w] \in {"write", "rename"} => r = "killed",
         p = "collect" => w \notin GaudinetCalls,
         p \in {"source", "open"} => w \in GaudinetCalls,
         \/ p \in {"source", "open"}
         \/ w \notin GaudinetCalls /\ p \in {"check", "opendir", "mkdir", "reopen", "collect"}
         \/ r = "ok"
         => d = NoData
  PROVE  FileInv'
<1> USE DEF FileInv, Undisturbing
<1>1. Shape'
  BY DEF Shape
<1>2. /\ pc'[w] = p /\ result'[w] = r /\ data'[w] = d
      /\ \A v \in Writer \ {w} : pc'[v] = pc[v] /\ result'[v] = result[v] /\ data'[v] = data[v]
  BY DEF Shape
<1>3. pc[w] # "start" /\ pc[w] # "end"
  BY DEF Progress
<1>4. Progress'
  BY <1>2, <1>3 DEF Progress, Results
<1>5. Inodes'
  BY <1>2, <1>3 DEF Inodes
<1>6. Temporary'
  BY <1>2, <1>3 DEF Temporary, Shape
<1>7. NoDataYet'
  BY <1>2, <1>3 DEF NoDataYet
<1>8. Ended \subseteq Ended'
  BY <1>2 DEF Ended
<1>9. Fresh'
  BY <1>2, <1>8 DEF Fresh, SuccessIsFresh
<1> QED
  BY <1>1, <1>4, <1>5, <1>6, <1>7, <1>9

\* A writer that keeps its data gives them to itself again.
LEMMA KeepsData ==
  ASSUME Shape, NEW w \in Writer, UNCHANGED data
  PROVE  data' = [data EXCEPT ![w] = data[w]]
BY DEF Shape

(***************************************************************************)
(* The steps one by one.                                                   *)
(***************************************************************************)
LEMMA BeginKeeps == ASSUME FileInv, NEW w \in Writer, Begin(w) PROVE FileInv'
<1> USE DEF FileInv, Begin, Goto, First, disk
<1>1. /\ pc'[w] \in {"source", "check"} /\ result'[w] = "running" /\ pc[w] = "start"
      /\ before'[w] = Ended
      /\ \A v \in Writer \ {w} : /\ pc'[v] = pc[v] /\ result'[v] = result[v]
                                 /\ before'[v] = before[v]
  BY DEF Shape, Progress
<1>2. Ended' = Ended
  BY <1>1 DEF Ended
<1>3. Shape'
  BY DEF Shape, Steps, Results, Ended
<1>4. Progress' /\ Temporary' /\ NoDataYet'
  BY <1>1 DEF Progress, Temporary, NoDataYet, Shape
<1>5. Inodes'
  BY <1>1 DEF Inodes
<1>6. Fresh'
  BY <1>1, <1>2 DEF Fresh, SuccessIsFresh
<1> QED
  BY <1>3, <1>4, <1>5, <1>6

\* Everything a call does before it has a temporary file, and being killed.
LEMMA LookingKeeps ==
  ASSUME FileInv, NEW w \in Writer,
         \/ StatSource(w) \/ OpenSource(w) \/ SymlinkCheck(w) \/ OpenDir(w) \/ Mkdir(w)
         \/ ReopenDir(w) \/ Collect(w) \/ StatFile(w) \/ Kill(w)
  PROVE  FileInv'
<1>0. Shape /\ Progress /\ NoDataYet
  BY DEF FileInv
<1>d. UNCHANGED data => data' = [data EXCEPT ![w] = data[w]]
  BY <1>0, KeepsData
<1>m. ASSUME NEW q \in Steps, pc[w] = q, result[w] = "running", UNCHANGED data,
             UNCHANGED <<file, temps, inode, before>>,
             NEW p \in Steps \ {"start", "write", "rename", "end"}, Goto(w, p), UNCHANGED result,
             q \notin {"write", "rename"}, p = "collect" => w \notin GaudinetCalls,
             p = "open" => q = "source", p # "source",
             p \in {"check", "opendir", "mkdir", "reopen", "collect"} =>
               q \in {"check", "opendir", "mkdir", "reopen"}
      PROVE  FileInv'
  <2>1. result' = [result EXCEPT ![w] = "running"]
    BY <1>0, <1>m DEF Shape
  <2>2. Undisturbing(w, p, "running", data[w])
    BY <1>d, <1>m, <2>1 DEF Undisturbing, Goto
  <2>3. p = "open" => w \in GaudinetCalls
    BY <1>0, <1>m DEF NoDataYet
  <2>4. p \in {"source", "open"} \/ (w \notin GaudinetCalls /\
          p \in {"check", "opendir", "mkdir", "reopen", "collect"}) => data[w] = NoData
    BY <1>0, <1>m DEF NoDataYet
  <2> QED
    BY <1>m, <2>2, <2>3, <2>4, UndisturbingKeeps DEF Results, Steps
<1>e. ASSUME result[w] = "running", UNCHANGED data, UNCHANGED <<file, temps, inode, before>>,
             NEW r \in {"ok", "error", "killed"}, End(w, r),
             pc[w] \in {"write", "rename"} => r = "killed", r = "ok" => data[w] = NoData
      PROVE  FileInv'
  <2>1. Undisturbing(w, "end", r, data[w])
    BY <1>d, <1>e DEF Undisturbing, End, Goto
  <2> QED
    BY <1>e, <2>1, UndisturbingKeeps DEF Results, Steps
<1> USE DEF disk, Running
<1>1. CASE StatSource(w)
  BY <1>0, <1>1, <1>m, <1>e DEF StatSource, Steps, NoDataYet
<1>2. CASE OpenSource(w)
  <2>1. ASSUME NEW r \in {"ok", "error"}, End(w, r), UNCHANGED data
        PROVE  FileInv'
    BY <1>0, <1>2, <1>e, <2>1 DEF OpenSource, NoDataYet
  <2>2. CASE data' = [data EXCEPT ![w] = <<source>>] /\ Goto(w, "check") /\ UNCHANGED result
    <3>1. Undisturbing(w, "check", "running", <<source>>)
      BY <1>0, <1>2, <2>2 DEF OpenSource, Undisturbing, Goto, Shape
    <3>2. w \in GaudinetCalls
      BY <1>0, <1>2 DEF OpenSource, NoDataYet
    <3> QED
      BY <1>2, <3>1, <3>2, UndisturbingKeeps DEF OpenSource, Results, Steps
  <2> QED
    BY <1>2, <2>1, <2>2 DEF OpenSource
<1>3. CASE SymlinkCheck(w)
  BY <1>3, <1>m, <1>e DEF SymlinkCheck, Steps
<1>o. ASSUME Running(w, pc[w]), pc[w] \in {"opendir", "reopen"}, Opened(w), UNCHANGED result,
             UNCHANGED <<data, file, temps, inode, before>>
      PROVE  FileInv'
  BY <1>o, <1>m DEF Opened, Steps
<1>4. CASE OpenDir(w)
  BY <1>4, <1>m, <1>e, <1>o DEF OpenDir, Steps
<1>5. CASE Mkdir(w)
  BY <1>5, <1>m, <1>e DEF Mkdir, DirExists, Steps
<1>6. CASE ReopenDir(w)
  BY <1>6, <1>m, <1>e, <1>o DEF ReopenDir, Steps
<1>7. CASE Collect(w)
  <2>1. w \notin GaudinetCalls /\ data[w] = NoData
    BY <1>0, <1>7 DEF Collect, NoDataYet
  <2>2. ASSUME NEW r \in {"ok", "error"}, End(w, r), UNCHANGED data
        PROVE  FileInv'
    BY <1>7, <1>e, <2>1, <2>2 DEF Collect
  <2>3. CASE data' = [data EXCEPT ![w] = <<NetConfig(look)>>] /\ Goto(w, "stat") /\ UNCHANGED result
    <3>1. Undisturbing(w, "stat", "running", <<NetConfig(look)>>)
      BY <1>0, <1>7, <2>3 DEF Collect, Undisturbing, Goto, Shape
    <3> QED
      BY <1>7, <3>1, UndisturbingKeeps DEF Collect, Results, Steps
  <2> QED
    BY <1>7, <2>2, <2>3 DEF Collect
<1>8. CASE StatFile(w)
  BY <1>8, <1>m, <1>e DEF StatFile, Steps
<1>9. CASE Kill(w)
  BY <1>9, <1>e DEF Kill
<1> QED
  BY <1>1, <1>2, <1>3, <1>4, <1>5, <1>6, <1>7, <1>8, <1>9

\* The call fails: its temporary file goes with it, names and inodes stay.
LEMMA FailingKeeps ==
  ASSUME FileInv, NEW w \in Writer, result[w] = "running",
         End(w, "error"), temps' \in {temps, temps \ {w}}, w \notin temps',
         UNCHANGED <<file, inode, data, before>>
  PROVE  FileInv'
<1> USE DEF FileInv, End, Goto
<1>1. /\ pc'[w] = "end" /\ result'[w] = "error" /\ pc[w] # "end"
      /\ \A v \in Writer \ {w} : pc'[v] = pc[v] /\ result'[v] = result[v]
  BY DEF Shape, Progress
<1>2. Shape'
  BY DEF Shape, Steps, Results
<1>3. Progress' /\ Temporary' /\ NoDataYet'
  BY <1>1 DEF Progress, Temporary, NoDataYet, Shape
<1>4. Inodes'
  BY <1>1 DEF Inodes
<1>5. Ended \subseteq Ended'
  BY <1>1 DEF Ended
<1>6. Fresh'
  BY <1>1, <1>5 DEF Fresh, SuccessIsFresh
<1> QED
  BY <1>2, <1>3, <1>4, <1>6

\* A new inode has no name yet.
LEMMA CreateTempKeeps == ASSUME FileInv, NEW w \in Writer, CreateTemp(w) PROVE FileInv'
<1> USE DEF FileInv
<1>0. pc[w] = "create" /\ result[w] = "running" /\ UNCHANGED <<data, before>>
  BY DEF CreateTemp, Running
<1>n. w \notin temps
  BY <1>0 DEF Temporary
<1>1. CASE End(w, "error") /\ UNCHANGED <<file, temps, inode>>
  BY <1>0, <1>n, <1>1, FailingKeeps
<1>2. CASE /\ NewFile(w) /\ Goto(w, "write") /\ UNCHANGED result
           /\ inode' = [i \in DOMAIN inode \cup {w} |->
                          IF i = w THEN [parts |-> 0, data |-> data[w]] ELSE inode[i]]
  <2> USE <1>2 DEF Goto, NewFile
  <2>1. /\ pc'[w] = "write" /\ \A v \in Writer \ {w} : pc'[v] = pc[v]
        /\ temps' = temps \cup {w} /\ file' = file
    BY DEF Shape
  <2>2. /\ w \in DOMAIN inode' /\ inode'[w] = [parts |-> 0, data |-> data[w]]
        /\ \A i \in DOMAIN inode' \ {w} : i \in DOMAIN inode /\ inode'[i] = inode[i]
        /\ DOMAIN inode' = DOMAIN inode \cup {w}
    OBVIOUS
  <2>3. 0 \in 0 .. Parts
    BY CallsBounded DEF BoundsNatural
  <2>4. \A f \in File : file[f] # w
    BY <1>0 DEF Inodes
  <2>5. Shape'
    <3>1. \A i \in DOMAIN inode' :
            /\ inode'[i].parts \in 0 .. Parts
            /\ inode'[i] = [parts |-> inode'[i].parts, data |-> inode'[i].data]
      BY <2>2, <2>3 DEF Shape
    <3>2. DOMAIN inode' \subseteq Writer \cup {"image"}
      BY <2>2 DEF Shape
    <3>3. inode' = [i \in DOMAIN inode' |-> inode'[i]]
      BY <2>2
    <3>4. pc' \in [Writer -> Steps] /\ temps' \subseteq Writer
      BY DEF Shape, Steps
    <3>5. UNCHANGED <<file, data, before, result>>
      BY <1>0, <2>1
    <3> HIDE <1>2
    <3> QED
      BY <3>1, <3>2, <3>3, <3>4, <3>5 DEF Shape
  <2>6. Progress' /\ Temporary' /\ NoDataYet'
    BY <1>0, <2>1 DEF Progress, Temporary, NoDataYet
  <2>7. Inodes'
    BY <1>0, <2>1, <2>2, <2>4 DEF Inodes
  <2>8. Fresh'
    BY <1>0, <2>1 DEF Fresh, SuccessIsFresh, Ended
  <2> QED
    BY <2>5, <2>6, <2>7, <2>8
<1> QED
  BY <1>1, <1>2 DEF CreateTemp

\* What is written has no name, and is complete when the writer goes on.
LEMMA WriteTempKeeps == ASSUME FileInv, NEW w \in Writer, WriteTemp(w) PROVE FileInv'
<1> USE DEF FileInv
<1>0. /\ pc[w] = "write" /\ result[w] = "running" /\ w \in DOMAIN inode
      /\ UNCHANGED <<file, data, before>>
  BY DEF WriteTemp, Running, Inodes
<1>n. \A f \in File : file[f] # w
  BY <1>0 DEF Inodes
<1>1. CASE CleanUp(w, "error") /\ UNCHANGED inode
  BY <1>0, <1>1, FailingKeeps DEF CleanUp
<1>2. CASE /\ inode[w].parts = Parts /\ Goto(w, "rename")
           /\ UNCHANGED <<result, temps, inode>>
  <2>1. pc'[w] = "rename" /\ \A v \in Writer \ {w} : pc'[v] = pc[v]
    BY <1>2 DEF Goto, Shape
  <2>2. Shape'
    BY <1>0, <1>2 DEF Shape, Goto, Steps
  <2>3. Progress' /\ Temporary' /\ NoDataYet'
    BY <1>0, <1>2, <2>1 DEF Progress, Temporary, NoDataYet, Shape
  <2>4. Inodes'
    BY <1>0, <1>2, <1>n, <2>1 DEF Inodes
  <2>5. Fresh'
    BY <1>0, <1>2 DEF Fresh, SuccessIsFresh, Ended
  <2> QED
    BY <2>2, <2>3, <2>4, <2>5
<1>3. CASE /\ inode[w].parts < Parts /\ inode' = [inode EXCEPT ![w].parts = @ + 1]
           /\ UNCHANGED <<pc, result, temps>>
  <2>1. /\ DOMAIN inode' = DOMAIN inode
        /\ \A i \in DOMAIN inode \ {w} : inode'[i] = inode[i]
        /\ inode'[w] = [inode[w] EXCEPT !.parts = @ + 1]
    BY <1>0, <1>3 DEF Shape
  <2>2. inode[w] = [parts |-> inode[w].parts, data |-> inode[w].data]
        /\ inode[w].parts \in 0 .. Parts
    BY <1>0 DEF Shape
  <2>3. inode'[w] = [parts |-> inode[w].parts + 1, data |-> inode[w].data]
    BY <2>1, <2>2
  <2>4. inode[w].parts + 1 \in 0 .. Parts
    BY <1>3, <2>2, CallsBounded DEF BoundsNatural
  <2>5. inode' = [i \in DOMAIN inode' |-> inode'[i]]
    BY <1>3
  <2>6. Shape'
    BY <1>0, <1>3, <2>1, <2>3, <2>4, <2>5 DEF Shape
  <2>7. Inodes'
    BY <1>0, <1>3, <1>n, <2>1 DEF Inodes
  <2> QED
    BY <1>0, <1>3, <2>6, <2>7 DEF Progress, Temporary, NoDataYet, Fresh, SuccessIsFresh, Ended
<1> QED
  BY <1>1, <1>2, <1>3 DEF WriteTemp

\* The name goes to a complete inode of a writer that had not ended.
LEMMA RenameKeeps == ASSUME FileInv, NEW w \in Writer, Rename(w) PROVE FileInv'
<1> USE DEF FileInv
<1>0. /\ pc[w] = "rename" /\ result[w] = "running"
      /\ w \in DOMAIN inode /\ inode[w].parts = Parts /\ UNCHANGED <<inode, data, before>>
  BY DEF Rename, Running, Inodes
<1>1. CASE RenameFails(w) /\ UNCHANGED file
  BY <1>0, <1>1, FailingKeeps DEF RenameFails, CleanUp
<1>2. CASE file' = [file EXCEPT ![Name(w)] = w] /\ CleanUp(w, "ok")
  <2> USE <1>2 DEF CleanUp, End, Goto
  <2>1. /\ pc'[w] = "end" /\ result'[w] = "ok" /\ temps' = temps \ {w}
        /\ \A v \in Writer \ {w} : pc'[v] = pc[v] /\ result'[v] = result[v]
    BY DEF Shape
  <2>2. Name(w) \in File /\ \A f \in File : file'[f] = IF f = Name(w) THEN w ELSE file[f]
    BY DEF Shape, Name, File
  <2>3. Shape'
    BY <1>0, <2>2 DEF Shape, Steps, Results
  <2>4. Progress' /\ Temporary' /\ NoDataYet'
    BY <1>0, <2>1 DEF Progress, Temporary, NoDataYet, Shape
  <2>5. Inodes'
    BY <1>0, <2>1, <2>2 DEF Inodes
  <2>6. w \notin Ended /\ Ended \subseteq Ended'
    BY <1>0, <2>1 DEF Ended
  <2>7. SuccessIsFresh'
    <3> SUFFICES ASSUME NEW v \in Writer, result'[v] = "ok", data'[v] # NoData
                 PROVE  file'[Name(v)] \in Writer \ before'[v]
      BY DEF SuccessIsFresh, Name
    <3>1. w \notin before[v] /\ Name(v) \in File
      BY <2>6 DEF Fresh, Name, File
    <3>2. v # w => file[Name(v)] \in Writer \ before[v]
      BY <1>0, <2>1 DEF Fresh, SuccessIsFresh
    <3> QED
      BY <1>0, <2>2, <3>1, <3>2
  <2> QED
    BY <1>0, <2>3, <2>4, <2>5, <2>6, <2>7 DEF Fresh
<1> QED
  BY <1>1, <1>2 DEF Rename

LEMMA FileNext == FileInv /\ [Next]_vars => FileInv'
<1> SUFFICES ASSUME FileInv, [Next]_vars PROVE FileInv'
  OBVIOUS
<1>1. ASSUME NEW w \in Writer, Begin(w) \/ Call(w) \/ Kill(w) PROVE FileInv'
  BY <1>1, BeginKeeps, LookingKeeps, CreateTempKeeps, WriteTempKeeps, RenameKeeps DEF Call
<1>2. CASE Replace
  BY <1>2 DEF Replace, disk, FileInv, Shape, Progress, Inodes, Temporary, NoDataYet, Fresh,
              SuccessIsFresh, Ended
<1>3. CASE UNCHANGED vars
  BY <1>3 DEF vars, disk, FileInv, Shape, Progress, Inodes, Temporary, NoDataYet, Fresh,
              SuccessIsFresh, Ended
<1> QED
  BY <1>1, <1>2, <1>3 DEF Next

LEMMA FileInvariant == Spec => []FileInv
BY FileInit, FileNext, PTL DEF Spec

\* However many calls meet, fail or are killed, and wherever: what is found under
\* one of the two names is all that one call wrote.
THEOREM FilesAreWhole == Spec => []FilesWhole
<1>1. FileInv => FilesWhole
  BY DEF FileInv, Inodes, FilesWhole
<1> QED
  BY <1>1, FileInvariant, PTL

\* A call that had something to write and succeeded has replaced what was there
\* and what calls wrote that had ended before it began.
THEOREM SuccessfulCallsAreFresh == Spec => []SuccessIsFresh
<1>1. FileInv => SuccessIsFresh
  BY DEF FileInv, Fresh
<1> QED
  BY <1>1, FileInvariant, PTL

\* A temporary file is that of a call that runs or was killed.
THEOREM TemporaryFilesRemoved == Spec => []TempsRemoved
<1>1. FileInv => TempsRemoved
  <2> SUFFICES ASSUME FileInv, NEW w \in temps PROVE result[w] \in {"running", "killed"}
    BY DEF TempsRemoved
  <2>1. w \in Writer /\ result[w] \in Results
    BY DEF FileInv, Shape
  <2> QED
    BY <2>1 DEF FileInv, Progress, Temporary, Results
<1> QED
  BY <1>1, FileInvariant, PTL

\* An inode under one of the names is not written any more.
THEOREM NoReaderDisturbed == Spec => ReadersUndisturbed
<1> DEFINE Still == \A f \in File : file[f] \in DOMAIN inode => inode'[file[f]] = inode[file[f]]
<1>1. ASSUME FileInv, [Next]_vars PROVE [Still]_vars
  <2>1. ASSUME NEW w \in Writer, CreateTemp(w) PROVE Still
    <3>1. \A f \in File : file[f] # w
      BY <1>1, <2>1 DEF FileInv, Inodes, CreateTemp, Running
    <3> QED
      BY <2>1, <3>1 DEF CreateTemp
  <2>2. ASSUME NEW w \in Writer, WriteTemp(w) PROVE Still
    <3>1. \A f \in File : file[f] # w
      BY <1>1, <2>2 DEF FileInv, Inodes, WriteTemp, Running
    <3> QED
      BY <1>1, <2>2, <3>1 DEF WriteTemp, FileInv, Shape
  <2>3. ASSUME NEW w \in Writer,
               \/ Begin(w) \/ StatSource(w) \/ OpenSource(w) \/ SymlinkCheck(w) \/ OpenDir(w)
               \/ Mkdir(w) \/ ReopenDir(w) \/ Collect(w) \/ StatFile(w) \/ Rename(w) \/ Kill(w)
        PROVE  UNCHANGED inode
    BY <2>3 DEF Begin, StatSource, OpenSource, SymlinkCheck, OpenDir, Mkdir, ReopenDir,
                Collect, StatFile, Rename, Kill, disk
  <2>4. Replace => UNCHANGED inode
    BY DEF Replace, disk
  <2> QED
    BY <1>1, <2>1, <2>2, <2>3, <2>4 DEF Next, Call
<1> QED
  BY <1>1, FileInvariant, PTL DEF Spec, ReadersUndisturbed

(***************************************************************************)
(* Writers do not make each other fail.  A cause, once there, stays: what  *)
(* is no plain directory or file is never replaced, as a writer that has   *)
(* got past the look at its file has seen that it is plain.                *)
(***************************************************************************)
Cause(w) ==
  \/ w \in hit
  \/ "other" \in {dirs["etc"], dirs["habanalabs"], file[Name(w)]}
  \/ w \notin GaudinetCalls /\ (replaced > 0 \/ Unreadable(look))

CauseInv ==
  /\ replaced \in Nat
  /\ dirs \in [{"etc", "habanalabs"} -> {"none", "dir", "other"}]
  /\ at \in [Writer -> {"etc", "habanalabs"}]
  /\ \A w \in Writer : pc[w] \in {"create", "write", "rename"} => file[Name(w)] # "other"
  /\ \A w \in Writer : result[w] = "error" => Cause(w)

LEMMA CauseInit == Init => CauseInv
<1> SUFFICES ASSUME Init PROVE CauseInv
  OBVIOUS
<1> QED
  BY ImagesPlain DEF Init, CauseInv

\* Directories are made where nothing is, names taken by renaming writers.
LEMMA DirsChange ==
  ASSUME [Next]_vars
  PROVE  UNCHANGED dirs \/ \E w \in Writer : dirs[at[w]] = "none" /\ dirs' = [dirs EXCEPT ![at[w]] = "dir"]
BY DEF Next, Begin, Call, StatSource, OpenSource, SymlinkCheck, OpenDir, Mkdir, ReopenDir,
       Collect, StatFile, CreateTemp, WriteTemp, Rename, Kill, Replace, disk, vars

LEMMA NamesChange ==
  ASSUME [Next]_vars
  PROVE  \/ UNCHANGED file
         \/ \E w \in Writer : pc[w] = "rename" /\ file' = [file EXCEPT ![Name(w)] = w]
BY DEF Next, Begin, Call, StatSource, OpenSource, SymlinkCheck, OpenDir, Mkdir, ReopenDir,
       Collect, StatFile, CreateTemp, NewFile, WriteTemp, Rename, Kill, Replace, Running,
       disk, vars

\* What a step does to the things a cause is made of.
LEMMA CausesStay ==
  ASSUME FileInv, CauseInv, [Next]_vars, NEW v \in Writer, Cause(v)
  PROVE  Cause(v)'
<1> USE DEF FileInv, CauseInv
<1>f. Name(v) \in File
  BY DEF Name, File
<1>1. hit \subseteq hit'
  BY DEF Next, Begin, Call, StatSource, OpenSource, SymlinkCheck, OpenDir, Mkdir, ReopenDir,
         Collect, StatFile, CreateTemp, WriteTemp, Rename, Kill, Replace, NoFault, Fault, vars
<1>2. UNCHANGED <<replaced, look>> \/ replaced' > 0
  <2>1. Replace => replaced' > 0
    BY DEF Replace
  <2>2. ASSUME NEW w \in Writer, Begin(w) \/ Call(w) \/ Kill(w) PROVE UNCHANGED <<replaced, look>>
    BY <2>2 DEF Begin, Call, StatSource, OpenSource, SymlinkCheck, OpenDir, Mkdir, ReopenDir,
                Collect, StatFile, CreateTemp, WriteTemp, Rename, Kill, hostv, bounds
  <2> QED
    BY <2>1, <2>2 DEF Next, vars, hostv, bounds
<1>3. \A d \in {"etc", "habanalabs"} : dirs[d] = "other" => dirs'[d] = "other"
  BY DirsChange
<1>4. file[Name(v)] = "other" => file'[Name(v)] = "other"
  BY NamesChange, <1>f DEF Shape
<1> QED
  BY <1>1, <1>2, <1>3, <1>4 DEF Cause

\* A call that fails meets a fault or sees a cause.
LEMMA ErrorsHaveCause ==
  ASSUME FileInv, CauseInv, [Next]_vars, NEW v \in Writer, result'[v] = "error"
  PROVE  result[v] = "error" \/ Cause(v)'
<1> USE DEF FileInv, CauseInv
<1>r. ASSUME NEW w \in Writer, NEW r, End(w, r) \/ UNCHANGED result, r # "error" \/ v # w
      PROVE  result[v] = "error"
  BY <1>r DEF End, Shape
<1>1. ASSUME NEW w \in Writer, w # v, Begin(w) \/ Call(w) \/ Kill(w) PROVE result[v] = "error"
  <2>1. \E r : result' = [result EXCEPT ![w] = r]
    <3>1. UNCHANGED result => result' = [result EXCEPT ![w] = result[w]]
      BY DEF Shape
    <3> QED
      BY <1>1, <3>1 DEF Begin, Call, StatSource, OpenSource, SymlinkCheck, OpenDir, Opened, Mkdir,
           DirExists, ReopenDir, Collect, StatFile, CreateTemp, WriteTemp, Rename, RenameFails,
           Kill, End, CleanUp
  <2> QED
    BY <1>1, <2>1 DEF Shape
<1>2. ASSUME Fault(v) PROVE Cause(v)'
  BY <1>2 DEF Fault, Cause
<1>3. ASSUME "other" \in {dirs["etc"], dirs["habanalabs"], file[Name(v)]}, UNCHANGED <<dirs, file>>
      PROVE  Cause(v)'
  BY <1>3 DEF Cause
<1>4. ASSUME Begin(v) \/ Kill(v) PROVE FALSE
  BY <1>4 DEF Begin, Kill, End, Shape
<1>5. ASSUME StatSource(v) \/ OpenSource(v) PROVE result[v] = "error" \/ Cause(v)'
  BY <1>2, <1>5 DEF StatSource, OpenSource, End, Shape
<1>6. ASSUME SymlinkCheck(v) \/ StatFile(v) PROVE result[v] = "error" \/ Cause(v)'
  BY <1>2, <1>3, <1>6 DEF SymlinkCheck, StatFile, End, Shape, disk
<1>7. CASE OpenDir(v)
  BY <1>2, <1>3, <1>7 DEF OpenDir, Opened, End, Shape, disk
<1>8. ASSUME Mkdir(v) \/ ReopenDir(v) PROVE result[v] = "error" \/ Cause(v)'
  BY <1>2, <1>8 DEF Mkdir, DirExists, ReopenDir, End, Shape
<1>9. CASE Collect(v)
  <2>1. v \notin GaudinetCalls
    BY <1>9 DEF Collect, Running, NoDataYet
  <2> QED
    BY <1>9, <2>1 DEF Collect, End, Shape, hostv, Cause
<1>10. ASSUME CreateTemp(v) \/ WriteTemp(v) \/ Rename(v) PROVE result[v] = "error" \/ Cause(v)'
  BY <1>2, <1>10 DEF CreateTemp, WriteTemp, Rename, RenameFails, CleanUp, End, Shape
<1>11. Replace \/ UNCHANGED vars => result[v] = "error"
  BY DEF Replace, vars
<1> QED
  BY <1>1, <1>4, <1>5, <1>6, <1>7, <1>8, <1>9, <1>10, <1>11 DEF Next, Call

LEMMA CauseNext == FileInv /\ FileInv' /\ CauseInv /\ [Next]_vars => CauseInv'
<1> SUFFICES ASSUME FileInv, FileInv', CauseInv, [Next]_vars PROVE CauseInv'
  OBVIOUS
<1>1. replaced' \in Nat
  <2>1. Replace => replaced' = replaced + 1
    BY DEF Replace
  <2>2. ASSUME NEW w \in Writer, Begin(w) \/ Call(w) \/ Kill(w) PROVE UNCHANGED replaced
    BY <2>2 DEF Begin, Call, StatSource, OpenSource, SymlinkCheck, OpenDir, Mkdir, ReopenDir,
                Collect, StatFile, CreateTemp, WriteTemp, Rename, Kill, bounds
  <2> QED
    BY <2>1, <2>2 DEF CauseInv, Next, vars, bounds
<1>2. dirs' \in [{"etc", "habanalabs"} -> {"none", "dir", "other"}]
  BY DirsChange DEF CauseInv
<1>3. at' \in [Writer -> {"etc", "habanalabs"}]
  BY DEF CauseInv, Next, Begin, Call, StatSource, OpenSource, Opened, SymlinkCheck, OpenDir, Mkdir,
         ReopenDir, Collect, StatFile, CreateTemp, WriteTemp, Rename, Kill, Replace, vars
<1>4. ASSUME NEW v \in Writer, pc'[v] \in {"create", "write", "rename"}
      PROVE  file'[Name(v)] # "other"
  <2>1. ASSUME NEW w \in Writer, w # v, Begin(w) \/ Call(w) \/ Kill(w)
        PROVE  pc[v] \in {"create", "write", "rename"}
    <3>1. \E q : pc' = [pc EXCEPT ![w] = q]
      <4>1. UNCHANGED pc => pc' = [pc EXCEPT ![w] = pc[w]]
        BY DEF FileInv, Shape
      <4> QED
        BY <2>1, <4>1 DEF Begin, Call, StatSource, OpenSource, SymlinkCheck, OpenDir, Opened,
             Mkdir, DirExists, ReopenDir, Collect, StatFile, CreateTemp, WriteTemp, Rename,
             RenameFails, Kill, CleanUp, End, Goto
    <3> QED
      BY <1>4, <2>1, <3>1 DEF FileInv, Shape
  <2>2. ASSUME Begin(v) \/ Call(v) \/ Kill(v)
        PROVE  pc[v] \in {"create", "write", "rename"} \/ file[Name(v)] # "other"
    BY <1>4, <2>2 DEF FileInv, Shape, Begin, Call, StatSource, OpenSource, SymlinkCheck, OpenDir,
         Opened, Mkdir, DirExists, ReopenDir, Collect, StatFile, CreateTemp, WriteTemp, Rename,
         RenameFails, Kill, CleanUp, End, Goto, First, Running
  <2>3. Replace \/ UNCHANGED vars => UNCHANGED pc
    BY DEF Replace, vars
  <2>4. file[Name(v)] # "other"
    BY <1>4, <2>1, <2>2, <2>3 DEF Next, CauseInv
  <2>5. Name(v) \in File
    BY DEF Name, File
  <2> QED
    BY <2>4, <2>5, NamesChange, ImagesPlain DEF FileInv, Shape
<1>5. ASSUME NEW v \in Writer, result'[v] = "error" PROVE Cause(v)'
  BY <1>5, CausesStay, ErrorsHaveCause DEF CauseInv
<1> QED
  BY <1>1, <1>2, <1>3, <1>4, <1>5 DEF CauseInv

\* A call that fails met a fault itself, or a path that is no plain directory or
\* file, or accelerators that cannot be read: never another call.
THEOREM FailuresHaveCause == Spec => []FailsForCause
<1>1. FileInv /\ CauseInv /\ [Next]_vars => CauseInv'
  BY FileNext, CauseNext
<1>2. CauseInv => FailsForCause
  BY DEF CauseInv, Cause, FailsForCause
<1> QED
  BY <1>1, <1>2, FileInvariant, CauseInit, PTL DEF Spec

(***************************************************************************)
(* What macAddrInfo.json says.  As long as the host stays as it is, every  *)
(* call of Generate collects the same.                                     *)
(***************************************************************************)
Collected(d) == ~Unreadable(look) /\ d = <<NetConfig(look)>>

Holding == {"stat", "create", "write", "rename"}

DataInv ==
  /\ look \in Looks /\ replaced \in Nat
  /\ file["macAddrInfo"] \in Writer =>
       file["macAddrInfo"] \in DOMAIN inode \ GaudinetCalls
  /\ replaced = 0 => \A w \in Writer \ GaudinetCalls :
       /\ pc[w] \in Holding => Collected(data[w])
       /\ w \in DOMAIN inode /\ (pc[w] \in {"write", "rename"} \/ file["macAddrInfo"] = w) =>
            Collected(inode[w].data)

LEMMA DataInit == Init => DataInv
<1> SUFFICES ASSUME Init PROVE DataInv
  OBVIOUS
<1> QED
  BY ImagesPlain DEF Init, DataInv, Holding

\* What the steps of others leave to a call.
LEMMA OthersKeepData ==
  ASSUME FileInv, NEW v \in Writer, NEW w \in Writer, w # v, Begin(w) \/ Call(w) \/ Kill(w)
  PROVE  /\ pc'[v] = pc[v] /\ data'[v] = data[v]
         /\ v \in DOMAIN inode' => v \in DOMAIN inode /\ inode'[v] = inode[v]
<1> USE DEF FileInv, Shape
<1>1. pc'[v] = pc[v]
  <2>1. \E q : pc' = [pc EXCEPT ![w] = q]
    <3>1. UNCHANGED pc => pc' = [pc EXCEPT ![w] = pc[w]]
      OBVIOUS
    <3> QED
      BY <3>1 DEF Begin, Call, StatSource, OpenSource, SymlinkCheck, OpenDir, Opened,
           Mkdir, DirExists, ReopenDir, Collect, StatFile, CreateTemp, WriteTemp, Rename,
           RenameFails, Kill, CleanUp, End, Goto
  <2> QED
    BY <2>1
<1>2. data'[v] = data[v]
  <2>1. UNCHANGED data \/ \E d : data' = [data EXCEPT ![w] = d]
    BY DEF Begin, Call, StatSource, OpenSource, SymlinkCheck, OpenDir, Mkdir, ReopenDir, Collect,
           StatFile, CreateTemp, WriteTemp, Rename, Kill
  <2> QED
    BY <2>1
<1>3. v \in DOMAIN inode' => v \in DOMAIN inode /\ inode'[v] = inode[v]
  <2>1. CASE CreateTemp(w)
    BY <2>1 DEF CreateTemp
  <2>2. CASE WriteTemp(w)
    BY <2>2 DEF WriteTemp
  <2>3. CASE ~CreateTemp(w) /\ ~WriteTemp(w)
    BY <2>3 DEF Begin, Call, StatSource, OpenSource, SymlinkCheck, OpenDir, Mkdir, ReopenDir,
                Collect, StatFile, Rename, Kill, disk
  <2> QED
    BY <2>1, <2>2, <2>3
<1> QED
  BY <1>1, <1>2, <1>3

\* A call of Generate collects, and writes what it has collected.
LEMMA CallKeepsData ==
  ASSUME FileInv, NEW w \in Writer \ GaudinetCalls, Begin(w) \/ Call(w) \/ Kill(w),
         pc[w] \in Holding => Collected(data[w]),
         pc[w] \in {"write", "rename"} => Collected(inode[w].data)
  PROVE  /\ pc'[w] \in Holding => Collected(data'[w])
         /\ pc'[w] \in {"write", "rename"} => Collected(inode'[w].data)
<1> USE DEF FileInv, Shape, Holding, Running, Goto, End
<1>1. CASE Begin(w) \/ Kill(w)
  BY <1>1 DEF Begin, Kill, First
<1>2. CASE StatSource(w) \/ OpenSource(w)
  BY <1>2 DEF StatSource, OpenSource, NoDataYet
<1>3. CASE SymlinkCheck(w) \/ Mkdir(w)
  BY <1>3 DEF SymlinkCheck, Mkdir, DirExists
<1>4. CASE OpenDir(w) \/ ReopenDir(w)
  BY <1>4 DEF OpenDir, ReopenDir, Opened
<1>5. CASE Collect(w)
  BY <1>5 DEF Collect, Collected
<1>6. CASE StatFile(w)
  BY <1>6 DEF StatFile
<1>7. CASE CreateTemp(w)
  BY <1>7 DEF CreateTemp
<1>8. CASE WriteTemp(w)
  <2>1. inode' = [inode EXCEPT ![w].parts = @ + 1] \/ UNCHANGED inode
    BY <1>8 DEF WriteTemp
  <2>2. w \in DOMAIN inode /\ inode[w] = [parts |-> inode[w].parts, data |-> inode[w].data]
    BY <1>8 DEF WriteTemp, Inodes
  <2>3. inode'[w].data = inode[w].data
    BY <2>1, <2>2
  <2> QED
    BY <1>8, <2>3 DEF WriteTemp, CleanUp
<1>9. CASE Rename(w)
  BY <1>9 DEF Rename, CleanUp, RenameFails
<1> QED
  BY <1>1, <1>2, <1>3, <1>4, <1>5, <1>6, <1>7, <1>8, <1>9 DEF Call

LEMMA DataNext == FileInv /\ FileInv' /\ DataInv /\ [Next]_vars => DataInv'
<1> SUFFICES ASSUME FileInv, FileInv', DataInv, [Next]_vars PROVE DataInv'
  OBVIOUS
<1>1. /\ look' \in Looks /\ replaced' \in Nat
      /\ replaced' = 0 => replaced = 0 /\ look' = look
  <2>1. ASSUME NEW w \in Writer, Begin(w) \/ Call(w) \/ Kill(w) PROVE UNCHANGED <<replaced, look>>
    BY <2>1 DEF Begin, Call, StatSource, OpenSource, SymlinkCheck, OpenDir, Mkdir, ReopenDir,
                Collect, StatFile, CreateTemp, WriteTemp, Rename, Kill, hostv, bounds
  <2> QED
    BY <2>1 DEF DataInv, Next, Replace, vars, hostv, bounds
<1>2. UNCHANGED file \/ \E w \in Writer : pc[w] = "rename" /\ file' = [file EXCEPT ![Name(w)] = w]
  BY NamesChange
<1>3. DOMAIN inode \subseteq DOMAIN inode'
  <2>1. ASSUME NEW w \in Writer, CreateTemp(w) \/ WriteTemp(w) PROVE DOMAIN inode \subseteq DOMAIN inode'
    BY <2>1 DEF CreateTemp, WriteTemp
  <2>2. UNCHANGED inode \/ \E w \in Writer : CreateTemp(w) \/ WriteTemp(w)
    BY DEF Next, Begin, Call, StatSource, OpenSource, SymlinkCheck, OpenDir, Mkdir, ReopenDir,
           Collect, StatFile, Rename, Kill, Replace, disk, vars
  <2> QED
    BY <2>1, <2>2
<1>4. file'["macAddrInfo"] \in Writer => file'["macAddrInfo"] \in DOMAIN inode' \ GaudinetCalls
  BY <1>2, <1>3 DEF DataInv, FileInv, Shape, Inodes, Name, File
<1>5. ASSUME replaced' = 0, NEW v \in Writer \ GaudinetCalls
      PROVE  /\ pc'[v] \in Holding => Collected(data'[v])
             /\ v \in DOMAIN inode' /\ (pc'[v] \in {"write", "rename"} \/ file'["macAddrInfo"] = v) =>
                  Collected(inode'[v].data)
  <2>0. /\ pc[v] \in Holding => Collected(data[v])
        /\ v \in DOMAIN inode /\ (pc[v] \in {"write", "rename"} \/ file["macAddrInfo"] = v) =>
             Collected(inode[v].data)
        /\ pc[v] \in {"write", "rename"} => v \in DOMAIN inode
    BY <1>1, <1>5 DEF DataInv, FileInv, Inodes
  <2>1. file'["macAddrInfo"] = v => pc[v] = "rename" \/ file["macAddrInfo"] = v
    BY <1>2 DEF FileInv, Shape, File, Name
  <2>2. file["macAddrInfo"] = v => pc[v] = "end"
    BY DEF FileInv, Inodes, File
  <2>3. ASSUME NEW w \in Writer, w # v, Begin(w) \/ Call(w) \/ Kill(w)
        PROVE  /\ pc'[v] \in Holding => Collected(data'[v])
               /\ v \in DOMAIN inode' /\ (pc'[v] \in {"write", "rename"} \/ file'["macAddrInfo"] = v) =>
                    Collected(inode'[v].data)
    BY <2>0, <2>1, <2>3, OthersKeepData
  <2>4. ASSUME Begin(v) \/ Call(v) \/ Kill(v)
        PROVE  /\ pc'[v] \in Holding => Collected(data'[v])
               /\ v \in DOMAIN inode' /\ (pc'[v] \in {"write", "rename"} \/ file'["macAddrInfo"] = v) =>
                    Collected(inode'[v].data)
    <3>1. /\ pc'[v] \in Holding => Collected(data'[v])
          /\ pc'[v] \in {"write", "rename"} => Collected(inode'[v].data)
      BY <2>0, <2>4, CallKeepsData
    <3>2. file["macAddrInfo"] # v
      <4>1. pc[v] # "end"
        BY <2>4 DEF FileInv, Progress, Begin, Kill, Call, StatSource, OpenSource, SymlinkCheck,
             OpenDir, Mkdir, ReopenDir, Collect, StatFile, CreateTemp, WriteTemp, Rename, Running
      <4> QED
        BY <2>2, <4>1
    <3>3. file'["macAddrInfo"] = v => UNCHANGED inode
      BY <2>1, <2>4, <3>2 DEF FileInv, Progress, Begin, Kill, Call, StatSource, OpenSource, SymlinkCheck,
             OpenDir, Mkdir, ReopenDir, Collect, StatFile, CreateTemp, WriteTemp, Rename, Running, disk
    <3> QED
      BY <2>0, <2>1, <3>1, <3>2, <3>3
  <2>5. CASE Replace \/ UNCHANGED vars
    BY <2>0, <2>5 DEF Replace, vars, disk
  <2> QED
    BY <2>3, <2>4, <2>5 DEF Next
<1>6. replaced' = 0 => \A d : Collected(d) <=> (Collected(d))'
  BY <1>1 DEF Collected
<1> QED
  BY <1>1, <1>4, <1>5, <1>6 DEF DataInv

\* What MacList gives has each port's address at the place of the port.
LEMMA ListedInPlace ==
  ASSUME NEW n \in Nat, NEW ports, \A p \in DOMAIN ports : p \in 0 .. (n - 1) /\ ports[p] # Broadcast
  PROVE  LET macs == MacList(ports, n)
         IN  {<<i - 1, macs[i]>> : i \in {j \in DOMAIN macs : macs[j] # Broadcast}}
               = {<<port, ports[port]>> : port \in DOMAIN ports}
<1> DEFINE macs == MacList(ports, n)
           held == {j \in DOMAIN macs : macs[j] # Broadcast}
           left == {<<i - 1, macs[i]>> : i \in held}
           right == {<<port, ports[port]>> : port \in DOMAIN ports}
<1>1. /\ DOMAIN macs = 1 .. n
      /\ \A i \in 1 .. n : macs[i] = IF i - 1 \in DOMAIN ports THEN ports[i - 1] ELSE Broadcast
  BY DEF MacList
<1> HIDE DEF macs
<1>2. ASSUME NEW i \in held PROVE <<i - 1, macs[i]>> \in right
  BY <1>1, <1>2
<1>3. ASSUME NEW port \in DOMAIN ports PROVE <<port, ports[port]>> \in left
  <2>1. port + 1 \in 1 .. n /\ (port + 1) - 1 = port
    OBVIOUS
  <2>2. port + 1 \in held /\ macs[port + 1] = ports[port]
    BY <1>1, <2>1
  <2> QED
    BY <2>1, <2>2
<1> QED
  BY <1>2, <1>3 DEF macs

\* On a host that has stayed as it was, macAddrInfo.json gives every accelerator
\* its address, and each of its ports the port's MAC, whichever call has written it.
THEOREM AddressesAreInPlace == Spec => []PortsInPlace
<1>1. FileInv /\ [Next]_vars => FileInv'
  BY FileNext
<1>2. DataInv => PortsInPlace
  <2> DEFINE held == file["macAddrInfo"]
  <2> SUFFICES ASSUME DataInv, held \in Writer, replaced = 0, NEW d \in look.devices
               PROVE  LET entry == inode[held].data[1][d]
                      IN  /\ entry.pci = look.pci[d]
                          /\ {<<i - 1, entry.macs[i]>> :
                                i \in {j \in DOMAIN entry.macs : entry.macs[j] # Broadcast}}
                               = {<<port, look.ports[d][port]>> : port \in DOMAIN look.ports[d]}
    BY DEF PortsInPlace
  <2>1. Collected(inode[held].data) /\ look \in Looks
    BY DEF DataInv
  <2>2. inode[held].data[1][d] =
          [pci |-> look.pci[d], macs |-> MacList(look.ports[d], InterfacesCount(look.type))]
    BY <2>1 DEF Collected, NetConfig
  <2>3. InterfacesCount(look.type) \in Nat
    BY DEF InterfacesCount
  <2>4. \A p \in DOMAIN look.ports[d] :
          p \in 0 .. (InterfacesCount(look.type) - 1) /\ look.ports[d][p] # Broadcast
    BY <2>1, PortsFit DEF Collected
  <2> HIDE DEF held
  <2> QED
    BY <2>2, <2>3, <2>4, ListedInPlace
<1> QED
  BY <1>1, <1>2, FileInvariant, DataInit, DataNext, PTL DEF Spec
=============================================================================
