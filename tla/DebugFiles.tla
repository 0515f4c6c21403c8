------------------------------ MODULE DebugFiles ------------------------------
(***************************************************************************)
(* debug.c: the table of files whose debug messages are wanted, filled by  *)
(* the options of the command line, kept sorted and searched by bisection. *)
(* Names are numbers, in the order strcmp gives them.  Startup runs it.    *)
(***************************************************************************)
EXTENDS Integers

CONSTANTS
    MAX_FILES_NUMBER,  \* 64
    Names              \* the names the options give

ASSUME DebugAssumption == MAX_FILES_NUMBER \in Nat \ {0} /\ Names \subseteq Nat

VARIABLES
    debugged_files,     \* the table, its used part
    nb_debugged_files,
    overflown           \* an entry was moved past the end of the table

vars == <<debugged_files, nb_debugged_files, overflown>>

Init ==
    /\ debugged_files = [j \in {} |-> 0]
    /\ nb_debugged_files = 0
    /\ overflown = FALSE

\* Where the loop stops: the first entry that is not smaller.
InsertionPoint(name) ==
    CHOOSE i \in 0 .. nb_debugged_files :
        /\ \A j \in 0 .. i - 1 : debugged_files[j] < name
        /\ i < nb_debugged_files => debugged_files[i] >= name

\* Mutant: the entries are moved in ascending order and overwrite each other.
Inserted_ascending(name, i) ==
    [j \in 0 .. nb_debugged_files |->
        IF j < i THEN debugged_files[j]
        ELSE IF j = i THEN name ELSE debugged_files[i]]

\* The entries from i on move up by one.
Inserted(name, i) ==
    [j \in 0 .. nb_debugged_files |->
        IF j < i THEN debugged_files[j]
        ELSE IF j = i THEN name ELSE debugged_files[j - 1]]

\* The capacity is compared with the insertion point, not with the number of
\* entries: a full table drops a name only when it comes last, and is overflown
\* otherwise.  What happens then depends on what lies behind the table.
add_debug_to(name) ==
    LET i == InsertionPoint(name)
    IN  /\ ~overflown
        /\ i < MAX_FILES_NUMBER
        /\ debugged_files' = Inserted(name, i)
        /\ nb_debugged_files' = nb_debugged_files + 1
        /\ overflown' = (nb_debugged_files >= MAX_FILES_NUMBER)

add_debug_to_full(name) ==
    /\ ~overflown
    /\ InsertionPoint(name) >= MAX_FILES_NUMBER
    /\ UNCHANGED vars

\* What from and to can be.
Ranges == (0 .. nb_debugged_files) \X (-1 .. nb_debugged_files - 1)

\* Mutant: the search goes on in the wrong half.
Bisect_wrong_half(name) ==
    LET search[r \in Ranges] ==
            LET from == r[1]
                to == r[2]
                middle == (from + to) \div 2
            IN  IF from >= to THEN from = to /\ debugged_files[from] = name
                ELSE IF debugged_files[middle] < name THEN search[<<from, middle - 1>>]
                ELSE debugged_files[middle] = name
    IN  search[<<0, nb_debugged_files - 1>>]

\* from and to close in until one entry, or none, is left.
__is_debugged(name) ==
    LET search[r \in Ranges] ==
            LET from == r[1]
                to == r[2]
                middle == (from + to) \div 2
            IN  IF from >= to THEN from = to /\ debugged_files[from] = name
                ELSE IF debugged_files[middle] < name THEN search[<<middle + 1, to>>]
                ELSE IF debugged_files[middle] > name THEN search[<<from, middle - 1>>]
                ELSE TRUE
    IN  search[<<0, nb_debugged_files - 1>>]

-----------------------------------------------------------------------------
\* The bisection finds exactly the names in the table, in whatever order and
\* however often they were added (debug.c:32-65).
FindsExactlyTheAdded ==
    ~overflown => \A name \in Names :
        __is_debugged(name) <=>
            \E j \in 0 .. nb_debugged_files - 1 : debugged_files[j] = name

\* A name added before the table was full is still found after every later
\* insertion (debug.c:41-43).
NoEntryLost ==
    [][\A j \in 0 .. nb_debugged_files - 1 :
         overflown' \/ \E h \in 0 .. nb_debugged_files' - 1 :
                            debugged_files'[h] = debugged_files[j]]_vars
=============================================================================
