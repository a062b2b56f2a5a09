--------------------------- MODULE MigrationFiles ---------------------------
(***************************************************************************)
(* LoadMigrations of internal/dao/migrator.go: the files of a directory,   *)
(* in the order of ReadDir, become migrations, or an error.  Several files *)
(* may be of one version, as 1_a.up.sql and 01_a.up.sql are.               *)
(***************************************************************************)
EXTENDS Migrator, Sequences, SequencesExt

CONSTANTS
    FileVersions,  \* what stands before the first _ of a file name, as a number
    FileNames,     \* what stands after it
    MaxFiles       \* bound: files in a directory

ASSUME MigrationFilesAssumption == FileVersions \subseteq Int /\ MaxFiles \in Nat

Texts == {"", "blank", "sql"}

\* A file .up.sql, .down.sql or of another suffix .sql; files of no such name
\* and directories are skipped, and left out here.
Files == [version : FileVersions, name : FileNames, kind : {"up", "down", "neither"}, text : Texts]

Directories == UNION {[1..n -> Files] : n \in 0..MaxFiles}

-----------------------------------------------------------------------------
(* Seeded faults: each replaces the definition it is named after, to see a *)
(* property fail.  None is part of the specification.                      *)

DuplicateNever(mig, f) == FALSE

-----------------------------------------------------------------------------
\* The maps the loop fills in, and whether it has returned an error.
Nothing == [failed |-> FALSE, migs |-> << >>]

Duplicate(mig, f) == mig[f.kind] # ""

\* One round of the loop.
Read(loaded, f) ==
    LET known == f.version \in DOMAIN loaded.migs
        mig   == IF known THEN loaded.migs[f.version]
                 ELSE [name |-> f.name, up |-> "", down |-> ""]
    IN  IF \/ loaded.failed
           \/ f.kind = "neither"
           \/ f.version <= 0
           \/ mig.name # f.name
           \/ Duplicate(mig, f)
        THEN [loaded EXCEPT !.failed = TRUE]
        ELSE [loaded EXCEPT !.migs =
                [v \in DOMAIN @ \cup {f.version} |->
                   IF v = f.version THEN [mig EXCEPT ![f.kind] = f.text] ELSE @[v]]]

\* sort.Slice: no two of the map's migrations are of one version.
Sorted(migrations) ==
    CHOOSE s \in SetToSeqs(migrations) :
        \A i, j \in DOMAIN s : i < j => s[i].version < s[j].version

LoadMigrations(files) ==
    LET loaded == FoldLeft(Read, Nothing, files)
        migs   == loaded.migs
    IN  IF loaded.failed \/ \E v \in DOMAIN migs : migs[v].up # "sql"
        THEN [failed |-> TRUE, plan |-> << >>]
        ELSE [failed |-> FALSE,
              plan |-> Sorted({[version |-> v, name |-> migs[v].name,
                                up |-> migs[v].up, down |-> migs[v].down]
                               : v \in DOMAIN migs})]

-----------------------------------------------------------------------------
(* Properties.                                                             *)

\* A directory as it should be: every version has one name, one file up with
\* statements in it and at most one down.
InOrder(files) ==
    /\ \A i \in DOMAIN files : files[i].kind # "neither" /\ files[i].version > 0
    /\ \A i, j \in DOMAIN files : files[i].version = files[j].version =>
          /\ files[i].name = files[j].name
          /\ i # j => files[i].kind # files[j].kind
    /\ \A i \in DOMAIN files : \E j \in DOMAIN files :
          files[j].version = files[i].version /\ files[j].kind = "up" /\ files[j].text = "sql"

\* No file is lost: LoadMigrations returns migrations of ascending versions
\* that hold the text of every file there is, or an error; it returns the
\* error whenever two files claim one version and direction with different
\* texts to run, and never for a directory that is in order.
IsLoaded(files) ==
    LET result == LoadMigrations(files)
        plan   == result.plan
    IN  /\ InOrder(files) => ~result.failed
        /\ ~result.failed =>
             /\ \A i, j \in DOMAIN plan : i < j => plan[i].version < plan[j].version
             /\ \A i \in DOMAIN files : \E j \in DOMAIN plan :
                   /\ plan[j].version = files[i].version
                   /\ plan[j].name = files[i].name
                   /\ files[i].text # "" => plan[j][files[i].kind] = files[i].text
             /\ \A j \in DOMAIN plan : plan[j].up = "sql"

\* So between any directory and the plan of a run no migration is lost.  This
\* is about no state, and so is looked at where every run starts.
FilesAreLoaded == Init => \A files \in Directories : IsLoaded(files)
=============================================================================
