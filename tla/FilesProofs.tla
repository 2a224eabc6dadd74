---------------------------- MODULE FilesProofs -----------------------------
(***************************************************************************)
(* For a table of any size, any mount, paths and devices: files stay where *)
(* the program got them, and open devices are found again.                 *)
(***************************************************************************)
EXTENDS Files, TLAPS

(* A place without a type has no device, and was never handed out.         *)
FreePlacesAreEmpty ==
    \A fd \in Fd :
        table[fd].type = "NONE" => table[fd].device = NoDevice /\ fd \notin given

Inv ==
    /\ TypeOK
    /\ FreePlacesAreEmpty

LEMMA StoredIsFile ==
    ASSUME NEW file \in File
    PROVE  /\ Stored(file) \in File
           /\ Stored(file).type # "NONE"
           /\ Stored(file).device = file.device
BY DEF File, Stored, Types

LEMMA NoFileIsFile == NoFile \in File /\ NoFile.device = NoDevice
BY DEF NoFile, File, Types

LEMMA InitInv == Init => Inv
<1>. SUFFICES ASSUME Init PROVE Inv OBVIOUS
<1>1. table \in [Fd -> File] BY NoFileIsFile, StoredIsFile DEF Init
<1>2. \A fd \in Fd : table[fd].device = NoDevice
  BY NoFileIsFile, StoredIsFile DEF Init
<1>3. open = {} /\ given = {} /\ replaced = {} /\ result = Null BY DEF Init
<1>. QED BY <1>1, <1>2, <1>3 DEF Inv, TypeOK, FreePlacesAreEmpty

(* Adding a file leaves the table as it is, or fills one free place.       *)
LEMMA AddFileEffect ==
    ASSUME Inv, NEW file \in File, AddFile(file)
    PROVE  \/ /\ Full
              /\ UNCHANGED <<table, given>>
              /\ result' = Null
           \/ \E fd \in Fd :
                 /\ table[fd].type = "NONE"
                 /\ table' = [table EXCEPT ![fd] = Stored(file)]
                 /\ given' = given \cup {fd}
                 /\ result' = fd
<1>1. Free(table) \subseteq Fd /\ \A fd \in Free(table) : table[fd].type = "NONE"
  BY FilesAssumption DEF Free, Fd
<1>. QED BY <1>1 DEF AddFile

LEMMA AddFileKeeps ==
    ASSUME Inv, NEW file \in File, AddFile(file),
           open' \subseteq Devices, replaced' \subseteq Devices
    PROVE  Inv'
<1>1. CASE UNCHANGED <<table, given>> /\ result' = Null
  BY <1>1 DEF Inv, TypeOK, FreePlacesAreEmpty
<1>2. ASSUME NEW fd \in Fd,
             table' = [table EXCEPT ![fd] = Stored(file)],
             given' = given \cup {fd},
             result' = fd
      PROVE  Inv'
  <2>1. TypeOK' BY <1>2, StoredIsFile DEF Inv, TypeOK
  <2>2. ASSUME NEW g \in Fd, table'[g].type = "NONE"
        PROVE  table'[g].device = NoDevice /\ g \notin given'
    <3>1. g # fd BY <1>2, <2>2, StoredIsFile DEF Inv, TypeOK
    <3>2. table'[g] = table[g] BY <3>1, <1>2 DEF Inv, TypeOK
    <3>. QED BY <3>1, <3>2, <2>2, <1>2 DEF Inv, FreePlacesAreEmpty
  <2>. QED BY <2>1, <2>2 DEF Inv, FreePlacesAreEmpty
<1>. QED BY <1>1, <1>2, AddFileEffect

LEMMA DeviceFile ==
    ASSUME NEW d \in Devices
    PROVE  [type |-> "IOS", device |-> d] \in File
BY DEF File, Types

LEMMA SetFileKeeps ==
    ASSUME Inv, NEW fd \in Fd, SetFile(fd) PROVE Inv'
<1>1. /\ table' = [table EXCEPT ![fd] = Stored(NoFile)]
      /\ given' = given \cup {fd}
      /\ open' = open /\ result' = result
      /\ replaced' = replaced \cup ({table[fd].device} \ {NoDevice})
  BY DEF SetFile
<1>2. table[fd].device \in Devices \cup {NoDevice} BY DEF Inv, TypeOK, File
<1>3. TypeOK' BY <1>1, <1>2, NoFileIsFile, StoredIsFile DEF Inv, TypeOK
<1>4. ASSUME NEW g \in Fd, table'[g].type = "NONE"
      PROVE  table'[g].device = NoDevice /\ g \notin given'
  <2>1. g # fd BY <1>1, <1>4, NoFileIsFile, StoredIsFile DEF Inv, TypeOK
  <2>2. table'[g] = table[g] BY <2>1, <1>1 DEF Inv, TypeOK
  <2>. QED BY <2>1, <2>2, <1>1, <1>4 DEF Inv, FreePlacesAreEmpty
<1>. QED BY <1>3, <1>4 DEF Inv, FreePlacesAreEmpty

LEMMA NextKeepsInv == Inv /\ [Next]_vars => Inv'
<1>. SUFFICES ASSUME Inv, [Next]_vars PROVE Inv' OBVIOUS
<1>1. ASSUME NEW path \in Paths, OpenNowhere(path) PROVE Inv'
  BY <1>1 DEF OpenNowhere, Inv, TypeOK, FreePlacesAreEmpty
<1>2. ASSUME NEW path \in Paths, OpenFails(path) PROVE Inv'
  <2>1. AddFile(NoFile) /\ open' = open /\ replaced' = replaced
    BY <1>2 DEF OpenFails
  <2>. QED BY <2>1, AddFileKeeps, NoFileIsFile DEF Inv, TypeOK
<1>3. ASSUME NEW path \in Paths, OpenDevice(path) PROVE Inv'
  <2>1. PICK d \in Devices \ open :
            /\ open' = open \cup {d}
            /\ AddFile([type |-> "IOS", device |-> d])
            /\ replaced' = replaced \ {d}
    BY <1>3 DEF OpenDevice
  <2>. QED BY <2>1, AddFileKeeps, DeviceFile DEF Inv, TypeOK
<1>4. ASSUME NEW fd \in Fd, CloseFileSync(fd) PROVE Inv'
  BY <1>4 DEF CloseFileSync, Inv, TypeOK, FreePlacesAreEmpty
<1>5. ASSUME NEW fd \in Fd, SetFile(fd) PROVE Inv'
  BY <1>5, SetFileKeeps
<1>6. CASE UNCHANGED vars
  BY <1>6 DEF vars, Inv, TypeOK, FreePlacesAreEmpty
<1>. QED BY <1>1, <1>2, <1>3, <1>4, <1>5, <1>6 DEF Next, OpenFileSync

LEMMA InvHolds == Spec => []Inv
BY InitInv, NextKeepsInv, PTL DEF Spec

Reachable(d) == \/ \E fd \in Fd : table[fd].device = d
                \/ d \in replaced
                \/ \A fd \in 3 .. Places - 1 : table[fd].type # "NONE"

(* A file added to the table takes no device out of it.                    *)
LEMMA AddFileLosesNothing ==
    ASSUME Inv, NEW file \in File, AddFile(file), NEW d \in Devices,
           Reachable(d), replaced \ {file.device} \subseteq replaced'
    PROVE  Reachable(d)'
<1>. USE FilesAssumption
<1>1. CASE Full /\ UNCHANGED <<table, given>>
  BY <1>1 DEF Full, Free, Reachable
<1>2. ASSUME NEW fd \in Fd,
             table[fd].type = "NONE",
             table' = [table EXCEPT ![fd] = Stored(file)]
      PROVE  Reachable(d)'
  <2>1. table[fd].device = NoDevice BY <1>2 DEF Inv, FreePlacesAreEmpty
  <2>2. table'[fd].device = file.device /\ table'[fd].type # "NONE"
    BY <1>2, StoredIsFile DEF Inv, TypeOK
  <2>3. \A g \in Fd : g # fd => table'[g] = table[g] BY <1>2 DEF Inv, TypeOK
  <2>4. CASE \E g \in Fd : table[g].device = d
    BY <2>4, <2>1, <2>3 DEF Reachable
  <2>5. CASE d \in replaced
    BY <2>5, <2>2 DEF Reachable
  <2>6. CASE \A g \in 3 .. Places - 1 : table[g].type # "NONE"
    <3>1. \A g \in 3 .. Places - 1 : g \in Fd BY DEF Fd
    <3>. QED BY <2>6, <2>2, <2>3, <3>1 DEF Reachable
  <2>. QED BY <2>4, <2>5, <2>6 DEF Reachable
<1>. QED BY <1>1, <1>2, AddFileEffect

(* The device that was opened last is in the table, or the table is full.  *)
LEMMA OpenedIsReachable ==
    ASSUME Inv, NEW d \in Devices, AddFile([type |-> "IOS", device |-> d])
    PROVE  Reachable(d)'
<1>. USE FilesAssumption
<1>1. CASE Full /\ UNCHANGED <<table, given>>
  BY <1>1 DEF Full, Free, Reachable
<1>2. ASSUME NEW fd \in Fd,
             table' = [table EXCEPT ![fd] = Stored([type |-> "IOS", device |-> d])]
      PROVE  Reachable(d)'
  BY <1>2, DeviceFile, StoredIsFile DEF Inv, TypeOK, Reachable
<1>. QED BY <1>1, <1>2, AddFileEffect, DeviceFile

LEMMA SetFileLosesNothing ==
    ASSUME Inv, NEW fd \in Fd, SetFile(fd), NEW d \in Devices, Reachable(d)
    PROVE  Reachable(d)'
<1>. USE FilesAssumption
<1>1. /\ table' = [table EXCEPT ![fd] = Stored(NoFile)]
      /\ replaced' = replaced \cup ({table[fd].device} \ {NoDevice})
  BY DEF SetFile
<1>2. table'[fd].type # "NONE"
  BY <1>1, NoFileIsFile, StoredIsFile DEF Inv, TypeOK
<1>3. \A g \in Fd : g # fd => table'[g] = table[g] BY <1>1 DEF Inv, TypeOK
<1>4. ASSUME NEW g \in Fd, table[g].device = d PROVE Reachable(d)'
  <2>1. CASE g = fd BY <2>1, <1>1, <1>4 DEF Reachable
  <2>2. CASE g # fd BY <2>2, <1>3, <1>4 DEF Reachable
  <2>. QED BY <2>1, <2>2
<1>5. CASE d \in replaced BY <1>5, <1>1 DEF Reachable
<1>6. CASE \A g \in 3 .. Places - 1 : table[g].type # "NONE"
  <2>1. \A g \in 3 .. Places - 1 : g \in Fd BY DEF Fd
  <2>. QED BY <1>6, <1>2, <1>3, <2>1 DEF Reachable
<1>. QED BY <1>4, <1>5, <1>6 DEF Reachable

LEMMA NextKeepsReachable ==
    Inv /\ DevicesAreReachable /\ [Next]_vars => DevicesAreReachable'
<1>. SUFFICES ASSUME Inv, \A d \in open : Reachable(d), [Next]_vars
     PROVE  \A d \in open' : Reachable(d)'
  BY DEF DevicesAreReachable, Reachable
<1>0. open \subseteq Devices BY DEF Inv, TypeOK
<1>1. ASSUME NEW path \in Paths, OpenNowhere(path)
      PROVE  \A d \in open' : Reachable(d)'
  BY <1>1 DEF OpenNowhere, Reachable
<1>2. ASSUME NEW path \in Paths, OpenFails(path)
      PROVE  \A d \in open' : Reachable(d)'
  <2>1. AddFile(NoFile) /\ open' = open /\ replaced' = replaced
    BY <1>2 DEF OpenFails
  <2>. QED BY <2>1, <1>0, AddFileLosesNothing, NoFileIsFile
<1>3. ASSUME NEW path \in Paths, OpenDevice(path)
      PROVE  \A d \in open' : Reachable(d)'
  <2>1. PICK e \in Devices \ open :
            /\ open' = open \cup {e}
            /\ AddFile([type |-> "IOS", device |-> e])
            /\ replaced' = replaced \ {e}
    BY <1>3 DEF OpenDevice
  <2>2. ASSUME NEW d \in open PROVE Reachable(d)'
    <3>1. d \in Devices BY <1>0
    <3>2. replaced \ {[type |-> "IOS", device |-> e].device} \subseteq replaced'
      BY <2>1
    <3>3. Reachable(d) OBVIOUS
    <3>. QED BY <2>1, <3>1, <3>2, <3>3, AddFileLosesNothing, DeviceFile
  <2>3. Reachable(e)' BY <2>1, OpenedIsReachable
  <2>. QED BY <2>1, <2>2, <2>3
<1>4. ASSUME NEW fd \in Fd, CloseFileSync(fd)
      PROVE  \A d \in open' : Reachable(d)'
  BY <1>4 DEF CloseFileSync, Reachable
<1>5. ASSUME NEW fd \in Fd, SetFile(fd)
      PROVE  \A d \in open' : Reachable(d)'
  <2>1. open' = open BY <1>5 DEF SetFile
  <2>. QED BY <1>5, <2>1, <1>0, SetFileLosesNothing
<1>6. CASE UNCHANGED vars BY <1>6 DEF vars, Reachable
<1>. QED BY <1>1, <1>2, <1>3, <1>4, <1>5, <1>6 DEF Next, OpenFileSync

(* However many opens succeed and fail, an open device is in the table     *)
(* unless its place was overwritten or every place is taken.               *)
THEOREM OpenDevicesAreReachable == Spec => []DevicesAreReachable
<1>1. Init => DevicesAreReachable BY DEF Init, DevicesAreReachable
<1>. QED BY <1>1, InvHolds, NextKeepsReachable, PTL DEF Spec

(* No open, failed or not, and no close changes a file the program was     *)
(* given.                                                                  *)
THEOREM GivenFilesStay == Spec => FilesStayUntilSet
<1>1. Inv /\ [Next]_vars =>
        [\A fd \in given : table'[fd] = table[fd] \/ SetFile(fd)]_vars
  <2>. SUFFICES ASSUME Inv, Next, NEW fd \in given
       PROVE table'[fd] = table[fd] \/ SetFile(fd)
    OBVIOUS
  <2>0. fd \in Fd /\ table[fd].type # "NONE"
    BY DEF Inv, TypeOK, FreePlacesAreEmpty
  <2>1. ASSUME NEW file \in File, AddFile(file) PROVE table'[fd] = table[fd]
    <3>1. ASSUME NEW g \in Fd, table[g].type = "NONE",
                 table' = [table EXCEPT ![g] = Stored(file)]
          PROVE  table'[fd] = table[fd]
      BY <3>1, <2>0 DEF Inv, TypeOK
    <3>. QED BY <2>1, <3>1, AddFileEffect
  <2>2. ASSUME NEW path \in Paths, OpenFileSync(path) PROVE table'[fd] = table[fd]
    <3>1. CASE OpenNowhere(path) BY <3>1 DEF OpenNowhere
    <3>2. CASE OpenFails(path) BY <3>2, <2>1, NoFileIsFile DEF OpenFails
    <3>3. CASE OpenDevice(path) BY <3>3, <2>1, DeviceFile DEF OpenDevice
    <3>. QED BY <2>2, <3>1, <3>2, <3>3 DEF OpenFileSync
  <2>3. ASSUME NEW g \in Fd, CloseFileSync(g) PROVE table'[fd] = table[fd]
    BY <2>3 DEF CloseFileSync
  <2>4. ASSUME NEW g \in Fd, SetFile(g) PROVE table'[fd] = table[fd] \/ SetFile(fd)
    <3>1. CASE g = fd BY <2>4, <3>1
    <3>2. CASE g # fd BY <2>4, <3>2, <2>0 DEF SetFile, Inv, TypeOK
    <3>. QED BY <3>1, <3>2
  <2>. QED BY <2>2, <2>3, <2>4 DEF Next
<1>. QED BY <1>1, InvHolds, PTL DEF Spec, FilesStayUntilSet
=============================================================================
