----------------------------- MODULE FileSystem -----------------------------
(***************************************************************************)
(* The file system: four MMIO registers in front of the host's files.  The *)
(* program sets a mode, some modes act at once, the others wait for a byte *)
(* in the input register, and every input byte ends the mode.              *)
(*                                                                         *)
(* The host's files are external: a name is mapped to what its file holds, *)
(* "bytes" or nothing, and opening for writing may be refused.             *)
(***************************************************************************)
EXTENDS Devices, FiniteSets

CONSTANTS
  PATH_LIMIT,     \* bytes in a path, 63
  InitialFiles    \* names of the files that hold bytes at the start

ASSUME FileSystemAssumption ==
  /\ PATH_LIMIT \in Nat
  /\ InitialFiles \subseteq Seq(BYTE)

VARIABLES mode, path, output, files

M_BASE        == 0
M_SET_PATH    == 1
M_PATH_RESET  == 2
M_PROBE_FILE  == 3
M_CREATE_FILE == 4
M_MOUNT_FILE  == 5
M_CLOSE_FILE  == 6

FileSystemTypeOK ==
  /\ mode \in BYTE
  /\ path \in Seq(BYTE) /\ Len(path) <= PATH_LIMIT
  /\ output \in {0, 1}
  /\ DOMAIN files \subseteq Seq(BYTE)
  /\ files \in [DOMAIN files -> {"bytes", "empty"}]

FileSystemInit ==
  /\ mode = M_BASE /\ path = <<>> /\ output = 0
  /\ files = [n \in InitialFiles |-> "bytes"]

\* The path as a C string: it ends at the first zero byte.
name ==
  LET before == {i \in 1 .. Len(path) : \A j \in 1 .. i : path[j] # 0}
  IN  [i \in 1 .. Cardinality(before) |-> path[i]]

register == dev["FILESYSTEM"].address
byte     == dev["FILESYSTEM"].data[0]

Exists(n) == n \in DOMAIN files

FsPathReset ==
  /\ byte = M_PATH_RESET
  /\ path' = <<>> /\ mode' = M_BASE
  /\ UNCHANGED <<output, files>>

\* Faulty: the probe opens the file for writing.
FsProbe_Writes ==
  /\ byte = M_PROBE_FILE
  /\ output' = 1 /\ mode' = M_BASE
  /\ files' = [n \in DOMAIN files \cup {name} |->
                 IF n = name THEN "empty" ELSE files[n]]
  /\ UNCHANGED path

FsProbe ==
  /\ byte = M_PROBE_FILE
  /\ output' = (IF Exists(name) THEN 1 ELSE 0) /\ mode' = M_BASE
  /\ UNCHANGED <<path, files>>

\* fopen(path, "w"): an existing file is truncated, a missing one made;
\* the output is 1 even when the host refuses.
FsCreate ==
  /\ byte = M_CREATE_FILE
  /\ output' = 1 /\ mode' = M_BASE
  /\ \/ /\ name # <<>>
        /\ files' = [n \in DOMAIN files \cup {name} |->
                       IF n = name THEN "empty" ELSE files[n]]
     \/ UNCHANGED files
  /\ UNCHANGED path

FsEnterMode ==
  /\ byte \notin {M_PATH_RESET, M_PROBE_FILE, M_CREATE_FILE}
  /\ mode' = byte
  /\ UNCHANGED <<path, output, files>>

\* Faulty: a mode that waits for its input is overwritten.
FsStoreMode_Always ==
  /\ Pending("FILESYSTEM", "DS_STORE")
  /\ register = MMIO_MODE_REGISTER_ADDRESS
  /\ FsPathReset \/ FsProbe \/ FsCreate \/ FsEnterMode
  /\ Done("FILESYSTEM")

\* A store to the mode register; it is ignored while a mode is set.
FsStoreMode ==
  /\ Pending("FILESYSTEM", "DS_STORE")
  /\ register = MMIO_MODE_REGISTER_ADDRESS
  /\ \/ mode # M_BASE /\ UNCHANGED <<mode, path, output, files>>
     \/ mode = M_BASE /\ (FsPathReset \/ FsProbe \/ FsCreate \/ FsEnterMode)
  /\ Done("FILESYSTEM")

\* A byte in the input register.
FsStoreInput ==
  /\ Pending("FILESYSTEM", "DS_STORE")
  /\ register = MMIO_INPUT_REGISTER_ADDRESS
  /\ path' = IF mode = M_SET_PATH /\ Len(path) < PATH_LIMIT
             THEN Append(path, byte) ELSE path
  /\ mode' = M_BASE
  /\ Done("FILESYSTEM")
  /\ UNCHANGED <<output, files>>

FsFetchMode ==
  /\ Pending("FILESYSTEM", "DS_FETCH")
  /\ register = MMIO_MODE_REGISTER_ADDRESS
  /\ DoneWith("FILESYSTEM", ByteLine(mode))
  /\ UNCHANGED <<mode, path, output, files>>

\* Faulty: the cursor is returned instead.
FsFetchOutput_Cursor ==
  /\ Pending("FILESYSTEM", "DS_FETCH")
  /\ register = MMIO_OUTPUT_REGISTER_ADDRESS
  /\ DoneWith("FILESYSTEM", ByteLine(Len(path)))
  /\ UNCHANGED <<mode, path, output, files>>

FsFetchOutput ==
  /\ Pending("FILESYSTEM", "DS_FETCH")
  /\ register = MMIO_OUTPUT_REGISTER_ADDRESS
  /\ DoneWith("FILESYSTEM", ByteLine(output))
  /\ UNCHANGED <<mode, path, output, files>>

\* The modifier register answers every request and keeps nothing: a fetch
\* returns whatever the mailbox last held.
FsModifier ==
  /\ Pending("FILESYSTEM", "DS_FETCH") \/ Pending("FILESYSTEM", "DS_STORE")
  /\ register = MMIO_MODIFIER_REGISTER_ADDRESS
  /\ Done("FILESYSTEM")
  /\ UNCHANGED <<mode, path, output, files>>

FsWait ==
  /\ ~Pending("FILESYSTEM", "DS_FETCH") /\ ~Pending("FILESYSTEM", "DS_STORE")
  /\ UNCHANGED <<dev, mode, path, output, files>>

filesystem_clock ==
  \/ FsStoreMode \/ FsStoreInput \/ FsFetchMode
  \/ FsFetchOutput \/ FsModifier \/ FsWait
=============================================================================
