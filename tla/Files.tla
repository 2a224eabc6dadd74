-------------------------------- MODULE Files --------------------------------
(***************************************************************************)
(* The file table (common/file.c) and the opening of files through the     *)
(* mounted filesystem (common/filesystem.c): TW_OpenFileSync finds the     *)
(* filesystem by the path's first characters, has it open a device, and    *)
(* puts what it returns, opened or not, into a free place of the table.    *)
(*                                                                         *)
(* One filesystem is mounted, the one TW_InitTwilight mounts.  What it     *)
(* opens is its own decision: any device that is not open, or none.  A     *)
(* file is its type and the device behind it.                              *)
(***************************************************************************)
EXTENDS Naturals, Sequences, FiniteSets

CONSTANTS
    Places,    \* TW_FILES_PER_BUCKET: 16, and no bucket is ever added
    Root,      \* the path of the mount: a sequence of characters
    Paths,     \* the paths the program opens
    Devices,   \* what the filesystem can open
    NoDevice,
    Null

ASSUME FilesAssumption ==
    /\ Places \in Nat /\ Places > 3
    /\ Root # <<>>
    /\ NoDevice \notin Devices
    /\ Null \notin Nat

VARIABLES
    table,     \* _g_file_table
    open,      \* the devices that are open
    given,     \* history: the places whose address the program was given
    replaced,  \* history: devices whose place TW_SetFile gave away
    result     \* what the last TW_OpenFileSync returned

vars == <<table, open, given, replaced, result>>

Fd == 0 .. Places - 1
Types == {"NONE", "GENERIC", "IOS"}
File == [type : Types, device : Devices \cup {NoDevice}]

NoFile == [type |-> "NONE", device |-> NoDevice]

(* Mutant of Stored: the type is left as it is.                            *)
StoredAsItIs(file) == file

(* A file without a type gets one: the place is taken by what failed, too. *)
Stored(file) == IF file.type = "NONE" THEN [file EXCEPT !.type = "GENERIC"] ELSE file

(* TW_InitTwilight: the mount, and the three standard files.               *)
Init ==
    /\ table = [fd \in Fd |-> IF fd < 3 THEN Stored(NoFile) ELSE NoFile]
    /\ open = {}
    /\ given = {}
    /\ replaced = {}
    /\ result = Null

(* Mutant of Free: the last place of the bucket is left out.               *)
FreeBeforeTheLast(t) == {fd \in 3 .. Places - 2 : t[fd].type = "NONE"}

Free(t) == {fd \in 3 .. Places - 1 : t[fd].type = "NONE"}

Full == Free(table) = {}

(* TW_AddFile: the first free place from the fourth on.                    *)
AddFile(file) ==
    IF Full
    THEN result' = Null /\ UNCHANGED <<table, given>>
    ELSE \E fd \in Free(table) :
            /\ \A other \in Free(table) : fd <= other
            /\ table' = [table EXCEPT ![fd] = Stored(file)]
            /\ given' = given \cup {fd}
            /\ result' = fd

(* TW_ResolveFilesystemPath with one name in the pool: how many characters *)
(* the path has in common with it.                                         *)
MatchLength(path) ==
    LET Common(n) == SubSeq(path, 1, n) = SubSeq(Root, 1, n)
        Longest == IF Len(path) < Len(Root) THEN Len(path) ELSE Len(Root)
    IN  CHOOSE n \in 0 .. Longest :
            Common(n) /\ \A k \in 0 .. Longest : Common(k) => k <= n

(* With no character in common there is no filesystem, and no file.        *)
OpenNowhere(path) ==
    /\ MatchLength(path) = 0
    /\ result' = Null
    /\ UNCHANGED <<table, open, given, replaced>>

(* The filesystem is asked for what follows the match; an empty rest and a *)
(* device it does not open both come back as an empty file.                *)
OpenFails(path) ==
    /\ MatchLength(path) > 0
    /\ AddFile(NoFile)
    /\ UNCHANGED <<open, replaced>>

OpenDevice(path) ==
    /\ MatchLength(path) \in 1 .. Len(path) - 1
    /\ \E d \in Devices \ open :
        /\ open' = open \cup {d}
        /\ AddFile([type |-> "IOS", device |-> d])
        /\ replaced' = replaced \ {d}

OpenFileSync(path) == OpenNowhere(path) \/ OpenFails(path) \/ OpenDevice(path)

(* TW_CloseFileSync on a device: its place in the table stays taken.       *)
CloseFileSync(fd) ==
    /\ table[fd].device \in open
    /\ open' = open \ {table[fd].device}
    /\ UNCHANGED <<table, given, replaced, result>>

(* TW_SetFile, with a file that has no device                              *)
SetFile(fd) ==
    /\ table' = [table EXCEPT ![fd] = Stored(NoFile)]
    /\ replaced' = replaced \cup ({table[fd].device} \ {NoDevice})
    /\ given' = given \cup {fd}
    /\ UNCHANGED <<open, result>>

Next ==
    \/ \E path \in Paths : OpenFileSync(path)
    \/ \E fd \in Fd : CloseFileSync(fd) \/ SetFile(fd)

Spec == Init /\ [][Next]_vars

-----------------------------------------------------------------------------
(* PROPERTIES                                                              *)

TypeOK ==
    /\ table \in [Fd -> File]
    /\ open \subseteq Devices
    /\ given \subseteq Fd
    /\ replaced \subseteq Devices
    /\ result \in Fd \cup {Null}

(* A file the program was given stays what it was until the program puts   *)
(* another in its place, however many opens succeed or fail in between:    *)
(* an open that failed is given a place of its own as well.                *)
FilesStayUntilSet ==
    [][\A fd \in given : table'[fd] = table[fd] \/ SetFile(fd)]_vars

(* An open device can be reached through the table, or closed, unless the  *)
(* program overwrote its place, or the table was full when it was opened:  *)
(* nothing ever empties a place, so it still is.                           *)
DevicesAreReachable ==
    \A d \in open : \/ \E fd \in Fd : table[fd].device = d
                    \/ d \in replaced
                    \/ \A fd \in 3 .. Places - 1 : table[fd].type # "NONE"
=============================================================================
