---------------------------- MODULE ParquetExport ----------------------------
(***************************************************************************)
(* RotatingParquetWriter as the narrative miner uses it: a record goes to  *)
(* the database and then, through a chain of promises, to the file of the  *)
(* window its turn comes in.  A file is readable once it is closed, which  *)
(* only the next window does; opening a file empties it.  Nobody closes    *)
(* the miner's writers when it ends.                                       *)
(***************************************************************************)
EXTENDS Naturals, SequencesExt

CONSTANTS
    MaxRecords,     \* bound: records
    MaxRolls,       \* bound: roll windows
    MaxWriterEnds   \* bound: restarts of the process

ASSUME ParquetAssumption ==
    {MaxRecords, MaxRolls, MaxWriterEnds} \subseteq Nat /\ MaxRolls > 0

VARIABLES
    rollWindow,     \* the window the clock is in
    recorded,       \* rows in the database, in order
    pending,        \* appends in the chain
    rejected,       \* the chain is rejected
    fileOf,         \* the window of the open file; 0: no writer
    files,          \* of each window: its rows, and whether it has a footer
    writerEnds,
    afterFailure,   \* history: rows that met the rejected chain or broke it
    inOpenFile,     \* history: rows of a file that was open when the process ended
    inChain         \* history: rows in the chain when the process ended

parquetVars == <<rollWindow, recorded, pending, rejected, fileOf, files, writerEnds,
                 afterFailure, inOpenFile, inChain>>

NoFile == [rows |-> {}, footer |-> FALSE]

ParquetInit ==
    /\ rollWindow = 1 /\ recorded = 0 /\ pending = <<>> /\ rejected = FALSE
    /\ fileOf = 0 /\ files = [w \in 1..MaxRolls |-> NoFile] /\ writerEnds = 0
    /\ afterFailure = {} /\ inOpenFile = {} /\ inChain = {}

NextRoll ==
    /\ rollWindow < MaxRolls
    /\ rollWindow' = rollWindow + 1
    /\ UNCHANGED <<recorded, pending, rejected, fileOf, files, writerEnds, afterFailure,
                   inOpenFile, inChain>>

\* recordTopic, recordWindow and recordMatch, where the database took the row; a row it
\* refused goes nowhere.
RecordRow ==
    /\ recorded < MaxRecords
    /\ recorded' = recorded + 1
    /\ pending' = Append(pending, recorded')
    /\ UNCHANGED <<rollWindow, rejected, fileOf, files, writerEnds, afterFailure,
                   inOpenFile, inChain>>

\* Bug: the file of the last window is let go without a close.
CloseFile_Dropped(w) == files

\* close writes the footer.
CloseFile(w) == IF w = 0 THEN files ELSE [files EXCEPT ![w].footer = TRUE]

\* ensureWriter
Rotates == fileOf # rollWindow

\* rotate and appendRow for the record whose turn it is.
AppendRow ==
    /\ pending # <<>> /\ ~rejected
    /\ LET opened == IF Rotates THEN [CloseFile(fileOf) EXCEPT ![rollWindow] = NoFile] ELSE files
           w == IF Rotates THEN rollWindow ELSE fileOf
       IN /\ files' = [opened EXCEPT ![w].rows = @ \union {Head(pending)}]
          /\ fileOf' = w
    /\ pending' = Tail(pending)
    /\ UNCHANGED <<rollWindow, recorded, rejected, writerEnds, afterFailure, inOpenFile,
                   inChain>>

\* The close, the open or the row fails, and with it this append and all behind it.
AppendFails ==
    /\ pending # <<>> /\ ~rejected
    /\ rejected' = TRUE
    /\ \/ UNCHANGED <<fileOf, files>>
       \/ Rotates /\ fileOf # 0 /\ fileOf' = 0 /\ files' = CloseFile(fileOf)
       \/ /\ Rotates /\ fileOf' = rollWindow
          /\ files' = [CloseFile(fileOf) EXCEPT ![rollWindow] = NoFile]
    /\ pending' = Tail(pending)
    /\ afterFailure' = afterFailure \union {Head(pending)}
    /\ UNCHANGED <<rollWindow, recorded, writerEnds, inOpenFile, inChain>>

AppendRejected ==
    /\ pending # <<>> /\ rejected
    /\ pending' = Tail(pending)
    /\ afterFailure' = afterFailure \union {Head(pending)}
    /\ UNCHANGED <<rollWindow, recorded, rejected, fileOf, files, writerEnds, inOpenFile,
                   inChain>>

\* The process ends and starts again; the file it wrote is without a footer.
WriterEnds ==
    /\ writerEnds < MaxWriterEnds
    /\ writerEnds' = writerEnds + 1
    /\ inChain' = inChain \union ToSet(pending)
    /\ inOpenFile' = inOpenFile \union (IF fileOf = 0 THEN {} ELSE files[fileOf].rows)
    /\ pending' = <<>> /\ rejected' = FALSE /\ fileOf' = 0
    /\ UNCHANGED <<rollWindow, recorded, files, afterFailure>>

ParquetNext ==
    NextRoll \/ RecordRow \/ AppendRow \/ AppendFails \/ AppendRejected \/ WriterEnds

ParquetSpec == ParquetInit /\ [][ParquetNext]_parquetVars

-----------------------------------------------------------------------------
(* Property *)

\* Over rotations, failures and restarts a row of the database is in the export, in one
\* file only, unless an append had failed before in its process or the process ended
\* with its file open; and a file with a footer is not the one being written, so that
\* what could once be read stays readable.
RowsAreExported ==
    LET exported == UNION {files[w].rows : w \in 1..MaxRolls}
    IN /\ \A n \in 1..recorded :
              n \in exported \union ToSet(pending) \union afterFailure \union inOpenFile
                    \union inChain
       /\ \A v, w \in 1..MaxRolls : v # w => files[v].rows \intersect files[w].rows = {}
       /\ \A w \in 1..MaxRolls :
              /\ files[w].rows # {} /\ ~files[w].footer =>
                    fileOf = w \/ files[w].rows \subseteq inOpenFile
              /\ fileOf = w => ~files[w].footer
=============================================================================
