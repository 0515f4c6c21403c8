---------------------------- MODULE StartupProofs -----------------------------
(***************************************************************************)
(* The start of the simulator, for every capacity of the table of debugged *)
(* files, every set of names and command line, and every range of ports.   *)
(***************************************************************************)
EXTENDS Startup, WellFoundedInduction, TLAPS

\* A set of numbers that is not empty has a least one.
LEMMA LeastNumber ==
    ASSUME NEW T \in SUBSET Nat, T # {}
    PROVE  \E m \in T : \A k \in T : m <= k
<1>1. IsWellFoundedOn(OpToRel(<, Nat), Nat)
  BY NatLessThanWellFounded
<1>2. PICK m \in T : \A k \in T : ~(<<k, m>> \in OpToRel(<, Nat))
  BY <1>1, WFMin
<1>3. \A k \in T : ~(k < m)
  BY <1>2 DEF OpToRel
<1> QED
  BY <1>3

-----------------------------------------------------------------------------
\* The used part of the table.
Entries == 0 .. nb_debugged_files - 1

\* What is inductive: the table is sorted.
TableInv ==
    /\ nb_debugged_files \in Nat /\ overflown \in BOOLEAN
    /\ debugged_files \in [Entries -> Nat]
    /\ \A i, j \in Entries : i <= j => debugged_files[i] <= debugged_files[j]

\* Where the loop of add_debug_to stops, it has a place to insert at.
LEMMA PointFound ==
    ASSUME TableInv, NEW n \in Nat
    PROVE  LET i == InsertionPoint(n)
           IN  /\ i \in 0 .. nb_debugged_files
               /\ \A j \in 0 .. i - 1 : debugged_files[j] < n
               /\ i < nb_debugged_files => debugged_files[i] >= n
<1> DEFINE T == {i \in 0 .. nb_debugged_files : i < nb_debugged_files => debugged_files[i] >= n}
<1>1. nb_debugged_files \in T /\ T \in SUBSET Nat
  BY DEF TableInv
<1>2. PICK m \in T : \A k \in T : m <= k
  BY <1>1, LeastNumber
<1>3. \A j \in 0 .. m - 1 : debugged_files[j] < n
  <2> TAKE j \in 0 .. m - 1
  <2>1. j \in Entries /\ j \notin T
    BY <1>2 DEF TableInv, Entries
  <2>2. debugged_files[j] \in Nat /\ j \in 0 .. nb_debugged_files
    BY <2>1 DEF TableInv, Entries
  <2> QED
    BY <2>1, <2>2
<1>4. \E i \in 0 .. nb_debugged_files :
        /\ \A j \in 0 .. i - 1 : debugged_files[j] < n
        /\ i < nb_debugged_files => debugged_files[i] >= n
  BY <1>2, <1>3
<1> QED
  BY <1>4 DEF InsertionPoint

\* An insertion keeps the table sorted and every entry in it.
LEMMA InsertSorts ==
    ASSUME TableInv, NEW n \in Nat, add_debug_to(n)
    PROVE  /\ TableInv'
           /\ \A j \in Entries : \E h \in Entries' : debugged_files'[h] = debugged_files[j]
<1> DEFINE i == InsertionPoint(n)
<1>1. /\ i \in 0 .. nb_debugged_files
      /\ \A j \in 0 .. i - 1 : debugged_files[j] < n
      /\ i < nb_debugged_files => debugged_files[i] >= n
  BY PointFound
<1>2. /\ debugged_files' = Inserted(n, i) /\ nb_debugged_files' = nb_debugged_files + 1
      /\ overflown' \in BOOLEAN
  BY DEF add_debug_to
<1> HIDE DEF i
<1>3. /\ nb_debugged_files \in Nat /\ Entries' = 0 .. nb_debugged_files
      /\ \A j \in Entries : j \in Int /\ j \in Entries' /\ j + 1 \in Entries'
  BY <1>2 DEF Entries, TableInv
<1>4. \A j \in Entries' :
        /\ j < i => j \in Entries /\ debugged_files'[j] = debugged_files[j]
        /\ j = i => debugged_files'[j] = n
        /\ j > i => j - 1 \in Entries /\ debugged_files'[j] = debugged_files[j - 1]
  BY <1>1, <1>2, <1>3 DEF Inserted, Entries
<1>5. \A j \in Entries : debugged_files[j] \in Nat
  BY DEF TableInv
<1>6. debugged_files' \in [Entries' -> Nat]
  <2>1. DOMAIN debugged_files' = Entries' /\ debugged_files' = [j \in Entries' |-> debugged_files'[j]]
    BY <1>2, <1>3 DEF Inserted
  <2>2. \A j \in Entries' : debugged_files'[j] \in Nat
    <3> TAKE j \in Entries'
    <3>1. j \in Int /\ i \in Int
      BY <1>1, <1>3
    <3>2. j < i \/ j = i \/ j > i
      BY <3>1
    <3> QED
      BY <1>4, <1>5, <3>2
  <2> QED
    BY <2>1, <2>2
<1>7. \A j \in Entries : IF j < i THEN debugged_files[j] < n ELSE debugged_files[j] >= n
  <2> TAKE j \in Entries
  <2>1. CASE j < i
    BY <1>1, <2>1 DEF Entries
  <2>2. CASE j >= i
    <3>1. i \in Entries /\ debugged_files[i] <= debugged_files[j]
      BY <1>1, <1>3, <2>2 DEF Entries, TableInv
    <3>2. i < nb_debugged_files /\ ~(j < i)
      BY <1>1, <1>3, <2>2, <3>1 DEF Entries
    <3>3. debugged_files[i] \in Nat /\ debugged_files[j] \in Nat /\ debugged_files[i] >= n
      BY <1>1, <1>5, <3>1, <3>2
    <3>4. debugged_files[j] >= n
      BY <3>1, <3>3
    <3> QED
      BY <3>2, <3>4
  <2> QED
    BY <1>1, <2>1, <2>2 DEF Entries
<1>8. ASSUME NEW j \in Entries', NEW k \in Entries', j <= k
      PROVE  debugged_files'[j] <= debugged_files'[k]
  <2>1. j \in Nat /\ k \in Nat /\ i \in Nat
    BY <1>1, <1>3
  <2>2. CASE j = k
    BY <1>6, <2>2
  <2>3. CASE j < k /\ k < i
    BY <1>4, <2>1, <2>3 DEF TableInv
  <2>4. CASE j < i /\ k = i
    BY <1>4, <1>5, <1>7, <2>1, <2>4
  <2>5. CASE j < i /\ i < k
    <3>1. /\ j \in Entries /\ k - 1 \in Entries /\ j <= k - 1
          /\ debugged_files'[j] = debugged_files[j] /\ debugged_files'[k] = debugged_files[k - 1]
      BY <1>4, <2>1, <2>5
    <3> QED
      BY <3>1 DEF TableInv
  <2>6. CASE j = i /\ i < k
    <3>1. k - 1 \in Entries /\ ~(k - 1 < i) /\ debugged_files'[k] = debugged_files[k - 1]
      BY <1>4, <2>1, <2>6
    <3> QED
      BY <1>4, <1>7, <2>6, <3>1
  <2>7. CASE i < j /\ j < k
    <3>1. /\ j - 1 \in Entries /\ k - 1 \in Entries /\ j - 1 <= k - 1
          /\ debugged_files'[j] = debugged_files[j - 1]
          /\ debugged_files'[k] = debugged_files[k - 1]
      BY <1>4, <2>1, <2>7
    <3> QED
      BY <3>1 DEF TableInv
  <2> QED
    BY <1>8, <2>1, <2>2, <2>3, <2>4, <2>5, <2>6, <2>7
<1>9. \A j \in Entries : \E h \in Entries' : debugged_files'[h] = debugged_files[j]
  <2> TAKE j \in Entries
  <2>1. CASE j < i
    <3>1. j \in Entries' /\ debugged_files'[j] = debugged_files[j]
      BY <1>3, <1>4, <2>1
    <3> QED
      BY <3>1
  <2>2. CASE j >= i
    <3>1. j + 1 \in Entries' /\ j + 1 > i /\ (j + 1) - 1 = j
      BY <1>1, <1>3, <2>2
    <3>2. debugged_files'[j + 1] = debugged_files[j]
      BY <1>4, <3>1
    <3> QED
      BY <3>1, <3>2
  <2> QED
    BY <1>1, <2>1, <2>2 DEF Entries
<1> QED
  BY <1>2, <1>3, <1>6, <1>8, <1>9 DEF TableInv

-----------------------------------------------------------------------------
\* The middle of two entries lies between them.
LEMMA Middle ==
    ASSUME NEW a \in Int, NEW b \in Int, a >= 0, a < b
    PROVE  (a + b) \div 2 \in Int /\ a <= (a + b) \div 2 /\ (a + b) \div 2 < b
  OBVIOUS

\* One round of the loop of __is_debugged, with the rounds left to f.
Round(f, n, r) ==
    LET from == r[1]
        to == r[2]
        middle == (from + to) \div 2
    IN  IF from >= to THEN from = to /\ debugged_files[from] = n
        ELSE IF debugged_files[middle] < n THEN f[<<middle + 1, to>>]
        ELSE IF debugged_files[middle] > n THEN f[<<from, middle - 1>>]
        ELSE TRUE

\* The name is between from and to.
Among(n, r) == \E j \in r[1] .. r[2] : debugged_files[j] = n

\* If the rounds left are right, so is this one.
LEMMA RoundRight ==
    ASSUME TableInv, NEW n \in Nat, NEW f, NEW from \in 0 .. nb_debugged_files,
           NEW to \in -1 .. nb_debugged_files - 1,
           \A r \in Ranges : r[2] - r[1] < to - from => f[r] = Among(n, r)
    PROVE  Round(f, n, <<from, to>>) = Among(n, <<from, to>>)
<1>0. nb_debugged_files \in Nat /\ from \in Int /\ to \in Int /\ from >= 0
  BY DEF TableInv
<1>1. CASE from >= to
  <2>1. Round(f, n, <<from, to>>) = (from = to /\ debugged_files[from] = n)
    BY <1>1 DEF Round
  <2>2. Among(n, <<from, to>>) <=> (from = to /\ debugged_files[from] = n)
    BY <1>0, <1>1 DEF Among
  <2> QED
    BY <2>1, <2>2 DEF Among
<1>2. CASE from < to
  <2> DEFINE m == (from + to) \div 2
  <2>1. m \in Int /\ from <= m /\ m < to
    BY <1>0, <1>2, Middle
  <2>2. m \in Entries /\ \A j \in from .. to : j \in Entries /\ debugged_files[j] \in Nat
    BY <1>0, <2>1 DEF Entries, TableInv
  <2>3. Round(f, n, <<from, to>>) =
            IF debugged_files[m] < n THEN f[<<m + 1, to>>]
            ELSE IF debugged_files[m] > n THEN f[<<from, m - 1>>]
            ELSE TRUE
    <3>1. ~(from >= to)
      BY <1>0, <1>2
    <3>2. <<from, to>>[1] = from /\ <<from, to>>[2] = to
      OBVIOUS
    <3> QED
      BY <3>1, <3>2, Zenon DEF Round
  <2> HIDE DEF m
  <2>4. CASE debugged_files[m] < n
    <3>1. <<m + 1, to>> \in Ranges /\ to - (m + 1) < to - from
      BY <1>0, <2>1 DEF Ranges
    <3>2. f[<<m + 1, to>>] = Among(n, <<m + 1, to>>)
      BY <3>1
    <3>3. \A j \in from .. m : debugged_files[j] < n
      <4> TAKE j \in from .. m
      <4>1. j \in Entries /\ j <= m /\ j \in from .. to
        BY <1>0, <2>1, <2>2
      <4>2. debugged_files[j] <= debugged_files[m]
        BY <2>2, <4>1 DEF TableInv
      <4> QED
        BY <2>1, <2>2, <2>4, <4>1, <4>2
    <3>4. Among(n, <<m + 1, to>>) <=> Among(n, <<from, to>>)
      BY <1>0, <2>1, <2>2, <3>3 DEF Among
    <3> QED
      BY <2>3, <2>4, <3>2, <3>4 DEF Among
  <2>5. CASE debugged_files[m] > n
    <3>1. <<from, m - 1>> \in Ranges /\ (m - 1) - from < to - from
      BY <1>0, <2>1 DEF Ranges
    <3>2. f[<<from, m - 1>>] = Among(n, <<from, m - 1>>)
      BY <3>1
    <3>3. \A j \in m .. to : debugged_files[j] > n
      <4> TAKE j \in m .. to
      <4>1. j \in Entries /\ m <= j /\ j \in from .. to
        BY <1>0, <2>1, <2>2
      <4>2. debugged_files[m] <= debugged_files[j]
        BY <2>2, <4>1 DEF TableInv
      <4> QED
        BY <2>1, <2>2, <2>5, <4>1, <4>2
    <3>4. Among(n, <<from, m - 1>>) <=> Among(n, <<from, to>>)
      BY <1>0, <2>1, <2>2, <3>3 DEF Among
    <3>5. ~(debugged_files[m] < n)
      BY <2>1, <2>2, <2>5
    <3> QED
      BY <2>3, <2>5, <3>2, <3>4, <3>5 DEF Among
  <2>6. CASE ~(debugged_files[m] < n) /\ ~(debugged_files[m] > n)
    <3>1. debugged_files[m] = n /\ m \in from .. to
      BY <1>0, <2>1, <2>2, <2>6
    <3>2. Among(n, <<from, to>>)
      BY <3>1 DEF Among
    <3> QED
      BY <2>3, <2>6, <3>2 DEF Among
  <2> QED
    BY <2>4, <2>5, <2>6
<1> QED
  BY <1>0, <1>1, <1>2

\* The rounds end, whatever is looked for: the bisection finds the names that
\* are in the table and no others.
LEMMA BisectionRight ==
    ASSUME TableInv, NEW n \in Nat
    PROVE  __is_debugged(n) <=> \E j \in Entries : debugged_files[j] = n
<1> DEFINE Rounds(g) == g = [r \in Ranges |-> Round(g, n, r)]
           ref == [r \in Ranges |-> Among(n, r)]
           search == CHOOSE g : Rounds(g)
<1>0. nb_debugged_files \in Nat
  BY DEF TableInv
<1>1. \A r \in Ranges : /\ r = <<r[1], r[2]>> /\ r[1] \in 0 .. nb_debugged_files
                        /\ r[2] \in -1 .. nb_debugged_files - 1
  BY DEF Ranges
<1>2. Rounds(ref)
  <2>1. ASSUME NEW r \in Ranges PROVE Round(ref, n, r) = Among(n, r)
    <3>1. \A q \in Ranges : ref[q] = Among(n, q)
      OBVIOUS
    <3> HIDE DEF ref
    <3> QED
      BY <1>1, <3>1, RoundRight
  <2> QED
    BY <2>1
<1>3. Rounds(search)
  BY <1>2
<1> HIDE DEF search
<1>4. ASSUME NEW g, Rounds(g)
      PROVE  \A r \in Ranges : g[r] = Among(n, r)
  <2> DEFINE size(r) == r[2] - r[1] + nb_debugged_files + 1
             Wrong == {r \in Ranges : g[r] # Among(n, r)}
             T == {size(r) : r \in Wrong}
  <2>1. \A r \in Ranges : size(r) \in Nat
    BY <1>0, <1>1
  <2> SUFFICES ASSUME Wrong # {} PROVE FALSE
    OBVIOUS
  <2>2. T \in SUBSET Nat /\ T # {}
    BY <2>1
  <2>3. PICK r \in Wrong : \A q \in Wrong : size(r) <= size(q)
    <3>1. PICK m \in T : \A k \in T : m <= k
      BY <2>2, LeastNumber
    <3> QED
      BY <3>1
  <2>4. \A q \in Ranges : q[2] - q[1] < r[2] - r[1] => g[q] = Among(n, q)
    <3> TAKE q \in Ranges
    <3>1. r[1] \in Int /\ r[2] \in Int /\ q[1] \in Int /\ q[2] \in Int
      BY <1>0, <1>1
    <3>2. q \in Wrong => ~(q[2] - q[1] < r[2] - r[1])
      BY <1>0, <2>3, <3>1
    <3> QED
      BY <3>2
  <2>5. Round(g, n, r) = Among(n, r)
    BY <1>1, <2>4, RoundRight
  <2>6. g[r] = Round(g, n, r)
    BY <1>4
  <2> QED
    BY <2>5, <2>6
<1>5. __is_debugged(n) = search[<<0, nb_debugged_files - 1>>]
  BY DEF __is_debugged, Round, search
<1>6. <<0, nb_debugged_files - 1>> \in Ranges
  BY <1>0 DEF Ranges
<1>7. search[<<0, nb_debugged_files - 1>>] = Among(n, <<0, nb_debugged_files - 1>>)
  BY <1>3, <1>4, <1>6
<1>8. Among(n, <<0, nb_debugged_files - 1>>) <=> \E j \in Entries : debugged_files[j] = n
  BY DEF Among, Entries
<1> QED
  BY <1>5, <1>7, <1>8

-----------------------------------------------------------------------------
\* Only the options change the table.
LEMMA TableStep ==
    ASSUME TableInv, [StartupNext]_svars
    PROVE  /\ TableInv'
           /\ \/ option_debug
              \/ UNCHANGED debugging
           /\ \A j \in Entries : \E h \in Entries' : debugged_files'[h] = debugged_files[j]
<1>1. CASE UNCHANGED debugging
  BY <1>1 DEF TableInv, debugging, Entries
<1>2. CASE option_debug
  <2>1. PICK n \in Names : add_debug_to(n) \/ add_debug_to_full(n)
    BY <1>2 DEF option_debug
  <2>2. n \in Nat
    BY DebugAssumption
  <2>3. CASE add_debug_to(n)
    BY <1>2, <2>2, <2>3, InsertSorts
  <2>4. CASE add_debug_to_full(n)
    BY <1>1, <2>4 DEF add_debug_to_full, vars, debugging
  <2> QED
    BY <2>1, <2>3, <2>4
<1>3. option_debug \/ UNCHANGED debugging
  BY DEF StartupNext, option_trace, option_usage, options_end, gdb_init, create, main_returns,
         option_port, bind, listen, unix_error, send_irq, lookup, connect, irq_read, Idle,
         parsed, main, simulator, svars
<1> QED
  BY <1>1, <1>2, <1>3

\* The table is empty at first.
LEMMA TableStart == StartupInit => TableInv
<1> SUFFICES ASSUME StartupInit PROVE TableInv
  OBVIOUS
<1>1. nb_debugged_files = 0 /\ debugged_files = [j \in {} |-> 0] /\ overflown = FALSE
  BY DEF StartupInit, Init
<1>2. Entries = {}
  BY <1>1 DEF Entries
<1> QED
  BY <1>1, <1>2 DEF TableInv

\* The bisection finds exactly the names in the table (debug.c:32-65).
THEOREM TableSearched == StartupSpec => []FindsExactlyTheAdded
<1>1. TableInv /\ [StartupNext]_svars => TableInv'
  BY TableStep
<1>2. TableInv => FindsExactlyTheAdded
  BY DebugAssumption, BisectionRight DEF FindsExactlyTheAdded, Entries
<1> QED
  BY <1>1, <1>2, TableStart, PTL DEF StartupSpec

\* No insertion loses an entry (debug.c:41-43).
THEOREM EntriesKept == StartupSpec => NoEntryLost
<1>1. TableInv /\ [StartupNext]_svars => TableInv'
  BY TableStep
<1>2. TableInv /\ [StartupNext]_svars =>
        [\A j \in 0 .. nb_debugged_files - 1 :
            overflown' \/ \E h \in 0 .. nb_debugged_files' - 1 :
                             debugged_files'[h] = debugged_files[j]]_vars
  BY TableStep DEF Entries
<1> QED
  BY <1>1, <1>2, TableStart, PTL DEF StartupSpec, NoEntryLost

\* What is inductive: the flag kept is what a look at the table tells, and the
\* table no longer changes.
FlagInv ==
    /\ TableInv
    /\ mpc \in {"options", "gdb_init"} => cached = "first"
    /\ cached # "first" /\ ~overflown =>
        cached = Flag(\E j \in Entries : debugged_files[j] = GdbFile)

\* The file asked about has a name.
LEMMA GdbFileNamed == GdbFile \in Nat
<1>1. Names \in SUBSET Nat /\ Names # {}
  BY DebugAssumption, StartupAssumption
<1>2. \E n \in Names : \A m \in Names : n <= m
  BY <1>1, LeastNumber
<1> QED
  BY <1>1, <1>2 DEF GdbFile

\* The first message of gdb_protocol.c comes when the options are read.
LEMMA FlagStep == FlagInv /\ [StartupNext]_svars => FlagInv'
<1> SUFFICES ASSUME FlagInv, [StartupNext]_svars PROVE FlagInv'
  OBVIOUS
<1>1. TableInv /\ TableInv' /\ (option_debug \/ UNCHANGED debugging)
  BY TableStep DEF FlagInv
<1>2. CASE option_debug
  BY <1>1, <1>2 DEF FlagInv, option_debug, getopt, after_options
<1>3. CASE gdb_init
  <2>1. UNCHANGED debugging /\ mpc' = "create"
    BY <1>3 DEF gdb_init, parsed, debugging
  <2>2. ~overflown => cached' = Flag(\E j \in Entries : debugged_files[j] = GdbFile)
    <3>1. ~overflown => cached' = Flag(__is_debugged(GdbFile))
      BY <1>3 DEF gdb_init
    <3>2. __is_debugged(GdbFile) <=> \E j \in Entries : debugged_files[j] = GdbFile
      BY <1>1, GdbFileNamed, BisectionRight
    <3> QED
      BY <3>1, <3>2 DEF Flag
  <2> QED
    BY <1>1, <2>1, <2>2 DEF FlagInv, debugging, Entries
<1>4. CASE ~option_debug /\ ~gdb_init
  <2>1. cached' = cached /\ (mpc' \in {"options", "gdb_init"} => mpc \in {"options", "gdb_init"})
    BY <1>4
    DEF StartupNext, option_trace, option_usage, options_end, create, main_returns,
        option_port, bind, listen, unix_error, send_irq, lookup, connect, irq_read, Idle,
        main, simulator, svars, after_options, exit
  <2> QED
    <3>1. debugged_files' = debugged_files /\ Entries' = Entries /\ overflown' = overflown
      BY <1>1, <1>4 DEF debugging, Entries
    <3>2. (\E j \in Entries : debugged_files[j] = GdbFile)' =
              (\E j \in Entries : debugged_files[j] = GdbFile)
      BY <3>1
    <3> QED
      BY <1>1, <2>1, <3>1, <3>2, Zenon DEF FlagInv
<1> QED
  BY <1>2, <1>3, <1>4

\* The flag kept at the first message is the answer of the complete table
\* (debug.h:38-42).
THEOREM FlagRight == StartupSpec => []CachedFlagRight
<1>1. StartupInit => FlagInv
  BY TableStart DEF FlagInv, StartupInit
<1>2. FlagInv => CachedFlagRight
  <2> SUFFICES ASSUME FlagInv, cached # "first", ~overflown
               PROVE  cached = Flag(__is_debugged(GdbFile))
    BY DEF CachedFlagRight
  <2>1. __is_debugged(GdbFile) <=> \E j \in Entries : debugged_files[j] = GdbFile
    BY GdbFileNamed, BisectionRight DEF FlagInv
  <2>2. cached = Flag(\E j \in Entries : debugged_files[j] = GdbFile)
    BY DEF FlagInv
  <2> QED
    BY <2>1, <2>2 DEF Flag
<1> QED
  BY <1>1, <1>2, FlagStep, PTL DEF StartupSpec

-----------------------------------------------------------------------------
\* What is inductive: nothing is bound before the options are read, what is
\* bound is what was asked for, the port printed is the one listened on, and no
\* two servers share a port.
ServerInv ==
    /\ lpc \in [Servers -> {"none", "bound", "listening"}]
    /\ port \in [Servers -> Nat] /\ printed \in [Servers -> Nat]
    /\ mpc \in {"options", "gdb_init", "create"} => \A s \in Servers : lpc[s] = "none"
    /\ \A s \in Servers : lpc[s] # "none" => asked[s] \in {0, port[s]}
    /\ \A s \in Servers : lpc[s] = "listening" => printed[s] = port[s]
    /\ (\A s \in Servers : lpc[s] = "listening") => port["gdb"] # port["irq"]

\* There are two servers.
LEMMA TwoServers ==
    /\ Other("gdb") = "irq" /\ Other("irq") = "gdb"
    /\ \A s \in Servers : Other(s) \in Servers /\ Other(s) # s
<1>1. "irq" # "gdb"
  OBVIOUS
<1>2. \A s \in Servers : Other(s) \in Servers /\ Other(s) # s
  <2> TAKE s \in Servers
  <2>1. \E t \in Servers : t # s
    BY <1>1 DEF Servers
  <2> QED
    BY <2>1 DEF Other
<1> QED
  BY <1>1, <1>2 DEF Servers

\* A port given to bind is the one asked for, or any if none was.
LEMMA BindableRight ==
    ASSUME NEW s \in Servers, NEW p \in Bindable(s),
           asked[s] # 0 => asked[s] \in Nat
    PROVE  p \in Nat /\ asked[s] \in {0, p}
  BY StartupAssumption DEF Bindable

\* Each call of create_server keeps the servers apart.
LEMMA ServersStep ==
    ServerInv /\ asked \in [Servers -> Nat] /\ [StartupNext]_svars =>
        ServerInv' /\ (asked \in [Servers -> Nat])'
<1> SUFFICES ASSUME ServerInv, asked \in [Servers -> Nat], [StartupNext]_svars
             PROVE  ServerInv' /\ asked' \in [Servers -> Nat]
  OBVIOUS
<1>1. ASSUME NEW s \in Servers, option_port(s) PROVE ServerInv' /\ asked' \in [Servers -> Nat]
  <2>1. /\ UNCHANGED <<lpc, port, printed, mpc>> /\ mpc = "options"
        /\ \E v \in 0 .. PortMod : asked' = [asked EXCEPT ![s] = v % PortMod]
    BY <1>1 DEF option_port, getopt, after_options, servers
  <2>2. asked' \in [Servers -> Nat]
    BY <2>1, StartupAssumption
  <2> QED
    BY <2>1, <2>2 DEF ServerInv
<1>2. ASSUME NEW s \in Servers, bind(s) PROVE ServerInv' /\ asked' \in [Servers -> Nat]
  <2>1. PICK p \in Bindable(s) : port' = [port EXCEPT ![s] = p] /\ printed' = printed
    BY <1>2 DEF bind
  <2>2. p \in Nat /\ asked[s] \in {0, p}
    BY BindableRight
  <2>3. lpc' = [lpc EXCEPT ![s] = "bound"] /\ asked' = asked /\ mpc' = "threads"
    BY <1>2 DEF bind, main, parsed
  <2>4. /\ lpc'[s] = "bound" /\ port'[s] = p
        /\ \A t \in Servers : t # s => lpc'[t] = lpc[t] /\ port'[t] = port[t]
    BY <2>1, <2>3 DEF ServerInv
  <2>5. /\ lpc' \in [Servers -> {"none", "bound", "listening"}]
        /\ port' \in [Servers -> Nat] /\ printed' \in [Servers -> Nat]
    BY <2>1, <2>2, <2>3 DEF ServerInv
  <2> QED
    BY <2>1, <2>2, <2>3, <2>4, <2>5 DEF ServerInv
<1>3. ASSUME NEW s \in Servers, listen(s) PROVE ServerInv' /\ asked' \in [Servers -> Nat]
  <2>1. /\ lpc' = [lpc EXCEPT ![s] = "listening"] /\ UNCHANGED <<asked, port>>
        /\ printed' = [printed EXCEPT ![s] = port[s]] /\ mpc' = "threads" /\ lpc[s] = "bound"
        /\ ~(lpc[Other(s)] = "listening" /\ port[Other(s)] = port[s])
    BY <1>3 DEF listen, main, parsed
  <2>2. (\A t \in Servers : lpc'[t] = "listening") => port["gdb"] # port["irq"]
    <3>1. Other(s) \in Servers /\ Other(s) # s
      BY TwoServers
    <3>2. lpc'[Other(s)] = lpc[Other(s)]
      BY <2>1, <3>1 DEF ServerInv
    <3>3. CASE s = "gdb"
      BY <2>1, <3>1, <3>2, <3>3, TwoServers
    <3>4. CASE s = "irq"
      BY <2>1, <3>1, <3>2, <3>4, TwoServers
    <3> QED
      BY <3>3, <3>4 DEF Servers
  <2>3. /\ lpc' \in [Servers -> {"none", "bound", "listening"}]
        /\ \A t \in Servers : lpc'[t] # "none" => lpc[t] # "none"
        /\ printed' \in [Servers -> Nat]
        /\ \A t \in Servers : lpc'[t] = "listening" => printed'[t] = port[t]
    BY <2>1 DEF ServerInv
  <2> QED
    BY <2>1, <2>2, <2>3 DEF ServerInv
<1>4. CASE /\ UNCHANGED <<asked, lpc, port, printed>>
           /\ mpc' \in {"options", "gdb_init", "create"} => mpc \in {"options", "gdb_init", "create"}
  BY <1>4 DEF ServerInv
<1>5. \/ \E s \in Servers : option_port(s) \/ bind(s) \/ listen(s)
      \/ /\ UNCHANGED <<asked, lpc, port, printed>>
         /\ mpc' \in {"options", "gdb_init", "create"} => mpc \in {"options", "gdb_init", "create"}
  BY DEF StartupNext, option_trace, option_usage, option_debug, options_end, gdb_init, create,
         main_returns, unix_error, send_irq, lookup, connect, irq_read, Idle, getopt, exit,
         parsed, main, simulator, servers, svars, after_options
<1> QED
  BY <1>1, <1>2, <1>3, <1>4, <1>5

\* Servers that listen do so on different ports, the ones they print, the ones
\* asked for (arm_simulator.c:46-66, csapp.c:418-432).
THEOREM ServersFound == StartupSpec => []ServersReachable
<1>1. StartupInit => ServerInv /\ asked \in [Servers -> Nat]
  BY DEF StartupInit, ServerInv, Servers
<1>2. ServerInv => ServersReachable
  BY DEF ServerInv, ServersReachable, Servers
<1> QED
  BY <1>1, <1>2, ServersStep, PTL DEF StartupSpec

-----------------------------------------------------------------------------
\* What is inductive: from the lookup on, the number at hand is the one of the
\* name, or the default; only then is it sent.
Named(i) ==
    \/ name = "default" /\ i = INTERRUPT
    \/ name # "default" /\ i \in 1 .. 7 /\ arm_exception_names[i] = name

SendInv ==
    /\ name \in Arguments
    /\ spc = "lookup" => name \notin {"too few", "default"}
    /\ spc \in {"connect", "sent"} => Named(irq)
    /\ spc # "exited" => received = {}
    /\ \A i \in received : Named(i)

\* Each step of send_irq keeps to the name it was given.
LEMMA SendStep == SendInv /\ [StartupNext]_svars => SendInv'
<1> SUFFICES ASSUME SendInv, [StartupNext]_svars PROVE SendInv'
  OBVIOUS
<1>1. CASE send_irq
  <2>1. name' \in Arguments /\ received' = {}
    BY <1>1 DEF send_irq, SendInv
  <2>2. CASE name' = "too few" /\ spc' = "exited"
    BY <2>1, <2>2 DEF SendInv
  <2>3. CASE name' = "default" /\ spc' = "connect" /\ irq' = INTERRUPT
    BY <2>1, <2>3 DEF SendInv, Named
  <2>4. CASE name' \notin {"too few", "default"} /\ spc' = "lookup" /\ irq' = 1
    BY <2>1, <2>4 DEF SendInv
  <2> QED
    BY <1>1, <2>2, <2>3, <2>4 DEF send_irq
<1>2. CASE lookup
  <2>1. name' = name /\ received' = received /\ spc = "lookup"
    BY <1>2 DEF lookup
  <2>2. CASE arm_get_exception_name(irq) = "NULL" /\ spc' = "exited"
    BY <2>1, <2>2 DEF SendInv, Named
  <2>3. CASE arm_get_exception_name(irq) = name /\ spc' = "connect" /\ irq' = irq
    <3>1. name # "NULL"
      BY DEF SendInv, Arguments
    <3>2. irq \in 1 .. 7 /\ arm_exception_names[irq] = name
      BY <2>3, <3>1 DEF arm_get_exception_name
    <3>3. Named(irq)'
      BY <2>1, <2>3, <3>2 DEF SendInv, Named
    <3> QED
      BY <2>1, <2>3, <3>3 DEF SendInv, Named
  <2>4. CASE spc' = spc /\ irq' = irq + 1
    <3>1. spc' = "lookup" /\ received' = {}
      BY <2>1, <2>4 DEF SendInv
    <3> QED
      BY <2>1, <3>1 DEF SendInv
  <2> QED
    BY <1>2, <2>2, <2>3, <2>4 DEF lookup
<1>3. CASE connect
  BY <1>3 DEF connect, SendInv, Named
<1>4. CASE irq_read
  BY <1>4 DEF irq_read, SendInv, Named
<1>5. CASE UNCHANGED <<spc, name, irq, received>>
  BY <1>5 DEF SendInv, Named
<1>6. send_irq \/ lookup \/ connect \/ irq_read \/ UNCHANGED <<spc, name, irq, received>>
  BY DEF StartupNext, option_trace, option_usage, option_debug, options_end, gdb_init, create,
         main_returns, option_port, bind, listen, unix_error, Idle, sender, svars, after_options
<1> QED
  BY <1>1, <1>2, <1>3, <1>4, <1>5, <1>6

\* The interrupt the simulator reads is the one asked for (send_irq.c:48-59).
THEOREM RightInterrupt == StartupSpec => []InterruptIsTheNamed
<1>1. StartupInit => SendInv
  BY DEF StartupInit, SendInv, Named, Arguments
<1>2. SendInv => InterruptIsTheNamed
  BY DEF SendInv, InterruptIsTheNamed, Named
<1> QED
  BY <1>1, <1>2, SendStep, PTL DEF StartupSpec
=============================================================================
