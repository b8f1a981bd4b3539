------------------------------ MODULE DebugWav ------------------------------
(***************************************************************************)
(* maybe_write and cleanup of the debug recorder (debug_wav.rs): each      *)
(* utterance is written to a directory, and then the directory is pruned   *)
(* of what is too old and, oldest first, of what is too much.  Time and    *)
(* sizes are in units of the model; the wall clock may be set back.        *)
(***************************************************************************)
EXTENDS Integers, FiniteSets

CONSTANTS
    Ttl, SizeCap,       \* debug_wav.ttl_hours and size_cap_mb
    MaxFiles, MaxTime,  \* bounds: files ever in the directory, readings of the clock
    Sizes               \* bound: sizes of a file

ASSUME DebugWavAssumption ==
    /\ Ttl \in Nat /\ SizeCap \in Nat /\ MaxFiles \in Nat /\ MaxTime \in Nat
    /\ Sizes \subseteq Nat

VARIABLES
    now,        \* the wall clock
    files,      \* the regular files of the directory
    locked,     \* those of them that cannot be removed
    named,      \* file names used so far
    stage,      \* "idle", or "written" between the write and the cleanup
    result      \* what the last call returned

recorderVars == <<now, files, locked, named, stage, result>>

File(name, size) == [name |-> name, size |-> size, modified |-> now]

\* duration_since fails for a file of the future, which counts as new.
Age(f) == IF f.modified > now THEN 0 ELSE now - f.modified

\* The bytes of some files, each by its file and its place in it.
Bytes(fs) == UNION {{f} \X (1 .. f.size) : f \in fs}
TotalBytes(fs) == Cardinality(Bytes(fs))

-----------------------------------------------------------------------------
\* The directory may hold files of earlier lives of the daemon, or of others.
RecorderInit ==
    /\ now \in 0 .. MaxTime
    /\ \E size \in Sizes, modified \in 0 .. MaxTime :
          files \in {{}, {[name |-> 1, size |-> size, modified |-> modified]}}
    /\ locked \in SUBSET files
    /\ named = Cardinality(files) /\ stage = "idle" /\ result = "none"

ClockMoves ==
    /\ now' \in 0 .. MaxTime /\ now' # now
    /\ UNCHANGED <<files, locked, named, stage, result>>

\* A name is of the millisecond; the worker has a transcription between two of them.
Writes(size) ==
    /\ stage = "idle" /\ named < MaxFiles
    /\ named' = named + 1 /\ files' = files \cup {File(named', size)}
    /\ stage' = "written"
    /\ UNCHANGED <<now, locked, result>>

\* What was written before the error stays, and nothing is cleaned up.
WriteFails ==
    /\ stage = "idle" /\ named < MaxFiles
    /\ \/ UNCHANGED <<files, named>>
       \/ \E size \in Sizes : named' = named + 1 /\ files' = files \cup {File(named', size)}
    /\ result' = "error"
    /\ UNCHANGED <<now, locked, stage>>

\* The early return for a directory within its cap, taken before files are removed.
ExpiredOnlyAboveCap(f) == Age(f) > Ttl /\ TotalBytes(files) > SizeCap
Expired(f)             == Age(f) > Ttl

NewestFirst(f, g) == f.modified >= g.modified
OldestFirst(f, g) == f.modified <= g.modified

\* The removals of the loop over the sorted entries: a beginning of some order by age
\* (entries of one age come as read_dir has them), the shortest whose sizes bring the
\* total under the cap.  A file that could not be removed is counted as removed.
TrimmedFrom(entries) ==
    LET beginnings == {b \in SUBSET entries :
                          \A f \in b, g \in entries \ b : OldestFirst(f, g)}
        enough(b)  == TotalBytes(entries \ b) <= SizeCap
        \* The loop had not stopped before its last removal.
        short(b)   == b # {} => \E last \in b :
                         /\ \A f \in b : OldestFirst(f, last)
                         /\ ~enough(b \ {last})
    IN  {b \in beginnings : enough(b) /\ short(b)}

CleansUp ==
    /\ stage = "written"
    /\ LET expired == {f \in files : Expired(f)} IN
       \E trimmed \in TrimmedFrom(files \ expired) :
          files' = files \ ((expired \cup trimmed) \ locked)
    /\ stage' = "idle" /\ result' = "path"
    /\ UNCHANGED <<now, locked, named>>

\* An entry cannot be read: what was found expired before it is gone, the cap not met.
CleanupFails ==
    /\ stage = "written"
    /\ \E read \in SUBSET files : files' = files \ ({f \in read : Expired(f)} \ locked)
    /\ stage' = "idle" /\ result' = "error"
    /\ UNCHANGED <<now, locked, named>>

\* The bound on names is reached.
Rests == stage = "idle" /\ named = MaxFiles /\ UNCHANGED recorderVars

RecorderNext ==
    \/ ClockMoves \/ WriteFails \/ CleansUp \/ CleanupFails \/ Rests
    \/ \E size \in Sizes : Writes(size)

RecorderSpec == RecorderInit /\ [][RecorderNext]_recorderVars

-----------------------------------------------------------------------------
\* Whenever a recording was reported, whatever calls failed before and wherever the
\* clock stands, the directory is within its two limits but for what cannot be removed.
RetentionHolds ==
    [][stage = "written" /\ result' = "path" /\ stage' = "idle" =>
          /\ \A f \in files' \ locked : now - f.modified <= Ttl
          /\ TotalBytes(files' \ locked) <= SizeCap]_recorderVars

\* The recording whose path is returned exists, unless it is larger than the cap, or
\* the clock went back or forth: newer files are then kept in its place, or it is old.
ReportedFileExists ==
    [][stage = "written" /\ result' = "path" /\ stage' = "idle" =>
          \A f \in files : f.name = named =>
              \/ f \in files'
              \/ f.size > SizeCap \/ Expired(f)
              \/ \E g \in files \ {f} : g.modified >= f.modified]_recorderVars
=============================================================================
